---- MODULE Spec2Model ----
(***************************************************************************)
(* Model of the notepad-- editor: the in-file search/highlight engine of   *)
(* the Workspace (getHighlightParts, searchMatchesCount, the match         *)
(* navigator), the list filters of the Sidebar and the rule table of the   *)
(* HTML -> Markdown converter.                                             *)
(*                                                                         *)
(* Text is a sequence of one-character strings.  A regular expression is   *)
(* built as the code builds it: the query is escaped into pattern source   *)
(* text, the source is wrapped (group, \b, ^ $) and RegExpCompile parses   *)
(* the source into atoms that the matcher interprets.                      *)
(***************************************************************************)
EXTENDS Integers, Sequences, FiniteSets, TLC

VARIABLES
    pc,             \* position of the run under the pure-function specifications
    content,        \* getHighlightParts / searchMatchesCount: the text searched
    query,          \* the query text
    options,        \* SearchOptions {caseSensitive, wholeWord}
    parts,          \* result of getHighlightParts
    matches,        \* result of content.match(regex) in searchMatchesCount (<<>> for null)
    tree,           \* preview: the children the markdown renderer hands to the components
    rawMarks,       \* the <mark id="match-N"> elements of HighlightBackdrop, in order
    previewMarks,   \* the <mark> elements of the preview container, in document order
    notes,          \* MainApp: the content of every note
    activeNoteId,   \* MainApp: the note shown in the Workspace, or NoNote
    navigatedSearchQuery,   \* MainApp: the initialSearchQuery prop of the Workspace
    editorViewMode, \* MainApp userHabits.editorViewMode: the viewMode prop
    isSearchVisible,        \* Workspace state
    searchQuery,            \* Workspace state
    searchOptions,          \* Workspace state
    currentMatchIndex,      \* Workspace state
    timers,         \* pending setTimeout(() => scrollToMatch(0), 100) callbacks, oldest first
    renderPending,  \* MainApp state was set and the Workspace effect has not yet run for it
    filterProjects, \* Sidebar: the projects searched (names)
    filterNotes,    \* Sidebar: the notes searched or filtered
    filteredNotes,  \* result of the quick-note filter
    searchResults,  \* result of the sidebar search
    node,           \* converter: the element turndown is converting
    appliedRule,    \* converter: the rule turndown chose for the element
    markdown,       \* converter: the replacement the rule returned
    html,           \* turndown(html): the clipboard HTML, two sibling nodes of the fragment
    cleanHtml,      \* turndown: html after the NBSP replacements
    dom,            \* turndown: the nodes the rules see (parsed, whitespace collapsed)
    md,             \* turndown: what turndownService.turndown returned
    output,         \* turndown: the returned Markdown
    clipboard,      \* the clipboard: its text/html and text/plain slots
    textarea,       \* the editor textarea: value, selectionStart, selectionEnd
    defaultPrevented,   \* whether the handler called e.preventDefault()
    noteContent,    \* the content of the active note after the paste
    caret,          \* the caret after the paste
    selection,      \* the element the selection range of the preview clones
    regExpThrows,   \* whether new RegExp(pattern, flags) throws for the query
    thrown,         \* the consumers of the matcher whose exception reached the caller
    localStorage,     \* App/storage: the items zen_projects and zen_notes
    appProjects,      \* App state: the projects array
    appNotes,         \* App state: the notes array (each note by its projectId)
    isDataLoaded,     \* App state
    loaded,           \* what getProjects() and getNotes() resolved to
    pendingEffects,   \* auto-save effects of the last commit still to run
    mainProjects,     \* MainApp state: the ids of projects
    mainNotes,        \* MainApp state: notes, each [id, projectId, createdAt]
    activeProjectId,  \* MainApp state
    userHabits,       \* MainApp state: lastActiveProjectId and lastActiveNoteId
    database,         \* the tables projects, notes and user_habits
    created,          \* Date.now() of the last note created
    settingsConfigured, \* MainApp state: settings.autoBackup && settings.backupPath
    listeners,        \* the close listeners made by the effect, oldest first
    window,           \* the window: "open" or "closed"
    closeEvents,      \* close-requested events emitted and not yet dispatched
    userClosed,       \* the user has asked to close the window
    backups,          \* storage.triggerBackup calls: started and finished
    db,               \* SqliteStorageService.db: "null" or "open"
    initPromise,      \* SqliteStorageService.initPromise: "null", "pending", "resolved", "rejected"
    initTask,         \* the async function of init: where it is, tables created
    loads,            \* calls of Database.load
    callers           \* the calls of init() and of the data operations

searchVars == <<content, query, options, parts, matches>>
treeVars == <<tree, rawMarks, previewMarks>>
appVars == <<notes, activeNoteId, navigatedSearchQuery, editorViewMode>>
workspaceVars == <<isSearchVisible, searchQuery, searchOptions, currentMatchIndex, timers,
                   renderPending>>
filterVars == <<filterProjects, filterNotes, filteredNotes, searchResults>>
convertVars == <<node, appliedRule, markdown>>
turndownVars == <<html, cleanHtml, dom, md, output>>
pasteVars == <<clipboard, textarea, defaultPrevented, noteContent, caret, selection>>
failureVars == <<regExpThrows, thrown>>
storageVars == <<localStorage, appProjects, appNotes, isDataLoaded, loaded, pendingEffects>>
mainVars == <<mainProjects, mainNotes, activeProjectId, userHabits, database, created>>
closeVars == <<settingsConfigured, listeners, window, closeEvents, userClosed, backups>>
sqliteVars == <<db, initPromise, initTask, loads, callers>>
vars == <<pc, searchVars, treeVars, appVars, workspaceVars, filterVars, convertVars, turndownVars,
          pasteVars,
          failureVars,
          storageVars,
          mainVars,
          closeVars,
          sqliteVars>>

----------------------------------------------------------------------------
(* Bounds and alphabets *)

MaxContentLen == 3
MaxQueryLen == 2
MaxRawLen == 3
MaxLeaves == 2
MaxNoteLen == 3
MaxNavQueryLen == 1
MaxTimers == 1
MaxItems == 2
MaxItemLen == 2
MaxTitleLen == 1
MaxHtmlTextLen == 2
MaxNodeTextLen == 3
MaxMdLen == 6
MaxValueLen == 2

\* characters of the preview model: a word character and a non-word character
TreeChars == {"a", "."}

\* characters of the notes of the navigator model
NavChars == {"a", "A"}

NoteIds == {"n1", "n2"}
NoNote == "null"
ViewModes == {"raw", "markdown"}

\* characters of the search model: a lower/upper-case pair, and "." which is
\* both a regex metacharacter and a non-word character
Chars == {"a", "A", "."}

Min(a, b) == IF a < b THEN a ELSE b

RECURSIVE Texts(_, _)
Texts(alphabet, n) ==
    IF n = 0 THEN {<<>>}
    ELSE LET shorter == Texts(alphabet, n - 1)
         IN shorter \cup {Append(t, c) : t \in {s \in shorter : Len(s) = n - 1}, c \in alphabet}

SearchOptionsSet == [caseSensitive : BOOLEAN, wholeWord : BOOLEAN]

RECURSIVE Concat(_)
Concat(segs) == IF segs = <<>> THEN <<>> ELSE Head(segs).text \o Concat(Tail(segs))

\* the variables of a part of the program that a specification leaves out
SearchIdle ==
    /\ content = <<>>
    /\ query = <<>>
    /\ options = [caseSensitive |-> FALSE, wholeWord |-> FALSE]
    /\ parts = <<>>
    /\ matches = <<>>

TreeIdle == tree = <<>> /\ rawMarks = <<>> /\ previewMarks = <<>>

FilterIdle ==
    /\ filterProjects = <<>>
    /\ filterNotes = <<>>
    /\ filteredNotes = <<>>
    /\ searchResults = [projects |-> <<>>, notes |-> <<>>]

NoNode == [nodeName |-> "", class |-> <<>>, style |-> <<>>, parent |-> "",
           codeChild |-> <<>>, text |-> <<>>]

ConvertIdle == node = NoNode /\ appliedRule = "" /\ markdown = <<>>

TurndownIdle ==
    html = <<>> /\ cleanHtml = <<>> /\ dom = <<>> /\ md = <<>> /\ output = <<>>

NoClipboard == [html |-> <<>>, text |-> <<>>]

NoTextarea == [value |-> <<>>, selectionStart |-> 0, selectionEnd |-> 0]

PasteIdle ==
    /\ clipboard = NoClipboard
    /\ textarea = NoTextarea
    /\ defaultPrevented = FALSE
    /\ noteContent = <<>>
    /\ caret = 0
    /\ selection = NoNode

FailureIdle == regExpThrows = FALSE /\ thrown = {}

StorageIdle ==
    /\ localStorage = [PROJECTS |-> [kind |-> "absent", value |-> <<>>], NOTES |-> [kind |-> "absent", value |-> <<>>]]
    /\ appProjects = <<>>
    /\ appNotes = <<>>
    /\ isDataLoaded = FALSE
    /\ loaded = [PROJECTS |-> <<>>, NOTES |-> <<>>]
    /\ pendingEffects = {}

MainIdle ==
    /\ mainProjects = {}
    /\ mainNotes = {}
    /\ activeProjectId = "null"
    /\ userHabits = [lastActiveProjectId |-> "quick_notes", lastActiveNoteId |-> "null"]
    /\ database = [projects |-> {}, notes |-> {},
                   user_habits |-> [lastActiveProjectId |-> "quick_notes", lastActiveNoteId |-> "null"]]
    /\ created = 0

CloseIdle ==
    /\ settingsConfigured = FALSE
    /\ listeners = <<>>
    /\ window = "open"
    /\ closeEvents = 0
    /\ userClosed = FALSE
    /\ backups = [started |-> 0, finished |-> 0]

SqliteIdle ==
    /\ db = "null"
    /\ initPromise = "null"
    /\ initTask = [pc |-> "none", tables |-> 0]
    /\ loads = 0
    /\ callers = <<>>

WorkspaceIdle ==
    /\ notes = [n \in NoteIds |-> <<>>]
    /\ activeNoteId = NoNote
    /\ navigatedSearchQuery = <<>>
    /\ editorViewMode = "raw"
    /\ isSearchVisible = FALSE
    /\ searchQuery = <<>>
    /\ searchOptions = [caseSensitive |-> FALSE, wholeWord |-> FALSE]
    /\ currentMatchIndex = 0
    /\ timers = <<>>
    /\ renderPending = FALSE

----------------------------------------------------------------------------
(* The JavaScript regular-expression machinery the code calls *)

\* the characters of the class [.*+?^${}()|[\]\\] that the code escapes
MetaChars == {".", "*", "+", "?", "^", "$", "{", "}", "(", ")", "|", "[", "]", "\\"}

\* \w of a JavaScript regular expression
WordChars == {"a", "b", "c", "A", "B", "C", "_", "0", "1"}

\* Canonicalize of an ignoreCase match: upper-casing
Canonicalize(c) ==
    CASE c = "a" -> "A"
      [] c = "b" -> "B"
      [] c = "c" -> "C"
      [] OTHER -> c

CharEq(c, d, ignoreCase) ==
    IF ignoreCase THEN Canonicalize(c) = Canonicalize(d) ELSE c = d

\* query.replace(/[.*+?^${}()|[\]\\]/g, '\\$&'): a backslash before every metacharacter
EscapeNone(q) == q

RECURSIVE escapedQuery(_)
escapedQuery(q) ==
    IF q = <<>> THEN <<>>
    ELSE (IF Head(q) \in MetaChars THEN <<"\\", Head(q)>> ELSE <<Head(q)>>)
         \o escapedQuery(Tail(q))

Atom(k, c) == [k |-> k, c |-> c]

\* new RegExp(source): the source text parsed into atoms
RECURSIVE RegExpCompile(_)
RegExpCompile(src) ==
    IF src = <<>> THEN <<>>
    ELSE IF Head(src) = "\\" /\ Len(src) >= 2
    THEN <<IF src[2] = "b" THEN Atom("wordb", "") ELSE Atom("lit", src[2])>>
         \o RegExpCompile(SubSeq(src, 3, Len(src)))
    ELSE << CASE Head(src) = "." -> Atom("any", "")
              [] Head(src) = "(" -> Atom("open", "")
              [] Head(src) = ")" -> Atom("close", "")
              [] Head(src) = "^" -> Atom("bol", "")
              [] Head(src) = "$" -> Atom("eol", "")
              [] OTHER -> Atom("lit", Head(src)) >>
         \o RegExpCompile(Tail(src))

NoCapture == [has |-> FALSE, from |-> 0, to |-> 0]
NoMatch == [ok |-> FALSE, index |-> 0, end |-> 0, cap |-> NoCapture]

IsWordAt(text, pos) == pos >= 1 /\ pos <= Len(text) /\ text[pos] \in WordChars

\* the atoms from the i-th on match text at position pos (1-based); end is the
\* position after the match, cap the span of the capturing group
RECURSIVE MatchHere(_, _, _, _, _, _)
MatchHere(atoms, i, text, pos, ignoreCase, cap) ==
    IF i > Len(atoms) THEN [ok |-> TRUE, index |-> 0, end |-> pos, cap |-> cap]
    ELSE LET a == atoms[i] IN
      CASE a.k = "lit" ->
             IF pos <= Len(text) /\ CharEq(text[pos], a.c, ignoreCase)
             THEN MatchHere(atoms, i + 1, text, pos + 1, ignoreCase, cap) ELSE NoMatch
        [] a.k = "any" ->
             IF pos <= Len(text) /\ text[pos] # "\n"
             THEN MatchHere(atoms, i + 1, text, pos + 1, ignoreCase, cap) ELSE NoMatch
        [] a.k = "wordb" ->
             IF IsWordAt(text, pos - 1) # IsWordAt(text, pos)
             THEN MatchHere(atoms, i + 1, text, pos, ignoreCase, cap) ELSE NoMatch
        [] a.k = "bol" ->
             IF pos = 1 THEN MatchHere(atoms, i + 1, text, pos, ignoreCase, cap) ELSE NoMatch
        [] a.k = "eol" ->
             IF pos = Len(text) + 1
             THEN MatchHere(atoms, i + 1, text, pos, ignoreCase, cap) ELSE NoMatch
        [] a.k = "open" ->
             MatchHere(atoms, i + 1, text, pos, ignoreCase,
                       [has |-> TRUE, from |-> pos, to |-> pos])
        [] a.k = "close" ->
             MatchHere(atoms, i + 1, text, pos, ignoreCase, [cap EXCEPT !.to = pos])

\* RegExp.prototype.exec from lastIndex (0-based): the leftmost match at or after it
RECURSIVE RegExpExec(_, _, _, _)
RegExpExec(atoms, text, lastIndex, ignoreCase) ==
    IF lastIndex > Len(text) THEN NoMatch
    ELSE LET m == MatchHere(atoms, 1, text, lastIndex + 1, ignoreCase, NoCapture) IN
         IF m.ok THEN [m EXCEPT !.index = lastIndex + 1]
         ELSE RegExpExec(atoms, text, lastIndex + 1, ignoreCase)

\* RegExp.prototype.test of a global regex: starts at lastIndex and leaves
\* lastIndex after the match, or at 0 when nothing matched
RegExpTest(atoms, text, lastIndex, ignoreCase) ==
    LET m == RegExpExec(atoms, text, lastIndex, ignoreCase) IN
    IF m.ok THEN [found |-> TRUE, lastIndex |-> m.end - 1]
    ELSE [found |-> FALSE, lastIndex |-> 0]

Captures(text, m) ==
    IF m.cap.has THEN <<SubSeq(text, m.cap.from, m.cap.to - 1)>> ELSE <<>>

\* String.prototype.split(regex): p is the end of the last piece, q the scan
\* position (0-based); the captures of every separator are spliced in
RECURSIVE SplitLoop(_, _, _, _, _, _)
SplitLoop(text, atoms, ignoreCase, p, q, acc) ==
    IF q >= Len(text) THEN Append(acc, SubSeq(text, p + 1, Len(text)))
    ELSE LET z == MatchHere(atoms, 1, text, q + 1, ignoreCase, NoCapture) IN
         IF ~z.ok THEN SplitLoop(text, atoms, ignoreCase, p, q + 1, acc)
         ELSE LET e == Min(z.end - 1, Len(text)) IN
              IF e = p THEN SplitLoop(text, atoms, ignoreCase, p, q + 1, acc)
              ELSE SplitLoop(text, atoms, ignoreCase, e, e,
                             (acc \o <<SubSeq(text, p + 1, q)>>) \o Captures(text, z))

StringSplit(text, atoms, ignoreCase) ==
    IF text = <<>>
    THEN (IF MatchHere(atoms, 1, text, 1, ignoreCase, NoCapture).ok THEN <<>> ELSE <<text>>)
    ELSE SplitLoop(text, atoms, ignoreCase, 0, 0, <<>>)

\* String.prototype.match(global regex): every non-overlapping match, left to right
RECURSIVE StringMatchAll(_, _, _, _)
StringMatchAll(text, atoms, ignoreCase, lastIndex) ==
    LET m == RegExpExec(atoms, text, lastIndex, ignoreCase) IN
    IF ~m.ok THEN <<>>
    ELSE <<[index |-> m.index, end |-> m.end]>>
         \o StringMatchAll(text, atoms, ignoreCase,
                           IF m.end = m.index THEN m.end ELSE m.end - 1)

----------------------------------------------------------------------------
(* Workspace.tsx: getHighlightParts and searchMatchesCount *)

\* wholeWord ? `(\\b${escapedQuery}\\b)` : `(${escapedQuery})`
NoGroupPattern(q, wholeWord) ==
    IF wholeWord THEN (<<"\\", "b">> \o escapedQuery(q)) \o <<"\\", "b">>
    ELSE escapedQuery(q)

highlightPattern(q, wholeWord) ==
    IF wholeWord THEN (<<"(", "\\", "b">> \o escapedQuery(q)) \o <<"\\", "b", ")">>
    ELSE (<<"(">> \o escapedQuery(q)) \o <<")">>

\* wholeWord ? `\\b${escapedQuery}\\b` : escapedQuery
countPattern(q, wholeWord) ==
    IF wholeWord THEN (<<"\\", "b">> \o escapedQuery(q)) \o <<"\\", "b">>
    ELSE escapedQuery(q)

ClassifyParts(pieces, pattern, ignoreCase) ==
    LET test == RegExpCompile((<<"^">> \o pattern) \o <<"$">>) IN
    [i \in 1..Len(pieces) |->
        [text |-> pieces[i], isMatch |-> RegExpTest(test, pieces[i], 0, ignoreCase).found]]

getHighlightPartsNoQueryGuard(c, q, o) ==
    IF c = <<>> THEN <<>>
    ELSE LET pattern == highlightPattern(q, o.wholeWord)
         IN ClassifyParts(StringSplit(c, RegExpCompile(pattern), ~o.caseSensitive),
                          pattern, ~o.caseSensitive)

getHighlightParts(c, q, o) ==
    IF c = <<>> THEN <<>>
    ELSE IF q = <<>> THEN <<[text |-> c, isMatch |-> FALSE]>>
    ELSE LET pattern == highlightPattern(q, o.wholeWord)
         IN ClassifyParts(StringSplit(c, RegExpCompile(pattern), ~o.caseSensitive),
                          pattern, ~o.caseSensitive)

\* the matches array of searchMatchesCount (<<>> where the code has null or returns 0 early)
searchMatches(c, q, o) ==
    IF q = <<>> \/ c = <<>> THEN <<>>
    ELSE StringMatchAll(c, RegExpCompile(countPattern(q, o.wholeWord)), ~o.caseSensitive, 0)

searchMatchesCount(c, q, o) == Len(searchMatches(c, q, o))

----------------------------------------------------------------------------
(* Workspace.tsx: HighlightBackdrop (raw view) and HighlightElements (preview) *)

\* the spans [index, end) of the segments with isMatch, in content coordinates
RECURSIVE MatchSpans(_, _)
MatchSpans(segs, offset) ==
    IF segs = <<>> THEN <<>>
    ELSE (IF Head(segs).isMatch
          THEN <<[index |-> offset + 1, end |-> offset + Len(Head(segs).text) + 1]>>
          ELSE <<>>)
         \o MatchSpans(Tail(segs), offset + Len(Head(segs).text))

\* HighlightBackdrop: nothing without a query; otherwise one <mark id="match-N">
\* per isMatch part, N counting from 0 in order (the N-th element of the result)
HighlightBackdrop(c, q, o) ==
    IF q = <<>> THEN <<>> ELSE MatchSpans(getHighlightParts(c, q, o), 0)

\* the elements whose markdownComponents entry wraps its children in
\* HighlightElements (p, li, h1..h6, blockquote, strong, em, inline code, a, del, td, th)
WrappedTags == {"p", "li", "h1", "h2", "h3", "h4", "h5", "h6", "blockquote",
                "strong", "em", "code", "a", "del", "td", "th"}

\* tags of the children of the preview model: a bare string, or an autolink
\* element holding one string
LeafTags == {"text", "a"}

\* HighlightElements over an array of children, child by child; offset is the
\* number of characters of the leaves before.  A string child is segmented on
\* its own; an element child is returned unchanged, and is highlighted by the
\* wrapper of its own component when it has one
RECURSIVE HighlightElementsTextOnly(_, _, _, _)
HighlightElementsTextOnly(children, q, o, offset) ==
    IF children = <<>> \/ q = <<>> THEN <<>>
    ELSE (IF Head(children).tag = "text"
          THEN MatchSpans(getHighlightParts(Head(children).text, q, o), offset)
          ELSE <<>>)
         \o HighlightElementsTextOnly(Tail(children), q, o, offset + Len(Head(children).text))

\* the children highlighted as one text, without regard to the leaves
HighlightElementsAcrossLeaves(children, q, o, offset) ==
    IF children = <<>> \/ q = <<>> THEN <<>>
    ELSE MatchSpans(getHighlightParts(Concat(children), q, o), offset)

RECURSIVE HighlightElements(_, _, _, _)
HighlightElements(children, q, o, offset) ==
    IF children = <<>> \/ q = <<>> THEN <<>>
    ELSE (IF Head(children).tag = "text" \/ Head(children).tag \in WrappedTags
          THEN MatchSpans(getHighlightParts(Head(children).text, q, o), offset)
          ELSE <<>>)
         \o HighlightElements(Tail(children), q, o, offset + Len(Head(children).text))

----------------------------------------------------------------------------
(* Sidebar.tsx / Search.tsx: the list filters.  One global RegExp object is  *)
(* shared by every test of a filter, so its lastIndex is threaded through    *)

\* notes.filter(n => regex.test(n.content))
RECURSIVE FilterByContent(_, _, _, _)
FilterByContent(items, atoms, ignoreCase, lastIndex) ==
    IF items = <<>> THEN <<>>
    ELSE LET r == RegExpTest(atoms, Head(items).content, lastIndex, ignoreCase) IN
         (IF r.found THEN <<Head(items)>> ELSE <<>>)
         \o FilterByContent(Tail(items), atoms, ignoreCase, r.lastIndex)

\* the quick-note filter: every note without a query
quickNotesFilter(items, q, o) ==
    IF q = <<>> THEN items
    ELSE FilterByContent(items, RegExpCompile(countPattern(q, o.wholeWord)),
                         ~o.caseSensitive, 0)

\* projects.filter(p => regex.test(p.name)): the kept projects and the lastIndex left
RECURSIVE FilterProjects(_, _, _, _)
FilterProjects(projects, atoms, ignoreCase, lastIndex) ==
    IF projects = <<>> THEN [kept |-> <<>>, lastIndex |-> lastIndex]
    ELSE LET r == RegExpTest(atoms, Head(projects).name, lastIndex, ignoreCase)
             rest == FilterProjects(Tail(projects), atoms, ignoreCase, r.lastIndex)
         IN [kept |-> (IF r.found THEN <<Head(projects)>> ELSE <<>>) \o rest.kept,
             lastIndex |-> rest.lastIndex]

\* notes.filter(n => titleMatch || contentMatch): n.title && regex.test(n.title),
\* then n.content ? regex.test(n.content) : false, both evaluated
RECURSIVE FilterNotes(_, _, _, _)
FilterNotes(items, atoms, ignoreCase, lastIndex) ==
    IF items = <<>> THEN <<>>
    ELSE LET n == Head(items)
             t == IF n.title # <<>> THEN RegExpTest(atoms, n.title, lastIndex, ignoreCase)
                  ELSE [found |-> FALSE, lastIndex |-> lastIndex]
             c == IF n.content # <<>> THEN RegExpTest(atoms, n.content, t.lastIndex, ignoreCase)
                  ELSE [found |-> FALSE, lastIndex |-> t.lastIndex]
         IN (IF t.found \/ c.found THEN <<n>> ELSE <<>>)
            \o FilterNotes(Tail(items), atoms, ignoreCase, c.lastIndex)

\* the sidebar search (the snippet attached to every kept note is left out)
sidebarSearch(projects, items, q, o) ==
    IF q = <<>> THEN [projects |-> <<>>, notes |-> <<>>]
    ELSE LET regex == RegExpCompile(countPattern(q, o.wholeWord))
             p == FilterProjects(projects, regex, ~o.caseSensitive, 0)
         IN [projects |-> p.kept,
             notes |-> FilterNotes(items, regex, ~o.caseSensitive, p.lastIndex)]

----------------------------------------------------------------------------
(* Specification SpecFilter: the filters applied to every list of projects  *)
(* and notes within the bounds                                              *)

FilterChars == {"a", "."}

NoteItems(n) ==
    UNION { {[i \in 1..k |-> [id |-> i, title |-> f[i][1], content |-> f[i][2]]] :
                f \in [1..k -> Texts(FilterChars, MaxTitleLen) \X Texts(FilterChars, MaxItemLen)]}
            : k \in 0..n }

ProjectItems ==
    {<<>>} \cup {<<[id |-> 1, name |-> t]>> : t \in Texts(FilterChars, MaxTitleLen) \ {<<>>}}

InitFilter ==
    /\ pc = "filter"
    /\ content = <<>>
    /\ parts = <<>>
    /\ matches = <<>>
    /\ TreeIdle
    /\ WorkspaceIdle
    /\ ConvertIdle
    /\ TurndownIdle
    /\ PasteIdle
    /\ FailureIdle
    /\ StorageIdle
    /\ MainIdle
    /\ CloseIdle
    /\ SqliteIdle
    /\ query \in Texts(FilterChars, MaxQueryLen)
    /\ options \in SearchOptionsSet
    /\ filterProjects \in ProjectItems
    /\ filterNotes \in NoteItems(MaxItems)
    /\ filteredNotes = <<>>
    /\ searchResults = [projects |-> <<>>, notes |-> <<>>]

FilterQuickNotes ==
    /\ pc = "filter"
    /\ filteredNotes' = quickNotesFilter(filterNotes, query, options)
    /\ pc' = "filtered"
    /\ UNCHANGED <<searchVars, treeVars, appVars, workspaceVars, convertVars, turndownVars, pasteVars, filterProjects, filterNotes,
                   searchResults, failureVars, storageVars, mainVars, closeVars, sqliteVars>>

SearchSidebar ==
    /\ pc = "filtered"
    /\ searchResults' = sidebarSearch(filterProjects, filterNotes, query, options)
    /\ pc' = "done"
    /\ UNCHANGED <<searchVars, treeVars, appVars, workspaceVars, convertVars, turndownVars, pasteVars, filterProjects, filterNotes,
                   filteredNotes, failureVars, storageVars, mainVars, closeVars, sqliteVars>>

NextFilter == FilterQuickNotes \/ SearchSidebar

SpecFilter == InitFilter /\ [][NextFilter]_vars

----------------------------------------------------------------------------
(* Workspace.tsx / Sidebar.tsx: the rule table of the HTML -> Markdown       *)
(* converter.  An element is [nodeName, class, style, parent, codeChild,     *)
(* text]: class and style are the attributes as sequences of tokens, parent  *)
(* the nodeName of the parent, codeChild the <code> descendant               *)
(* node.querySelector('code') finds (<<>> for none, else <<its class>>),     *)
(* text the content turndown rendered from the children.                     *)

\* the no-break space U+00A0
Nbsp == "U+00A0"

\* what String.prototype.trim / trimEnd and \s take for white space
Whitespace == {" ", "\n", "\t", "\r", Nbsp}

RECURSIVE TrimStart(_)
TrimStart(t) == IF t # <<>> /\ Head(t) \in Whitespace THEN TrimStart(Tail(t)) ELSE t

RECURSIVE TrimEnd(_)
TrimEnd(t) ==
    IF t # <<>> /\ t[Len(t)] \in Whitespace THEN TrimEnd(SubSeq(t, 1, Len(t) - 1)) ELSE t

Trim(t) == TrimEnd(TrimStart(t))

\* className.includes('monaco') || includes('vscode') || includes('ace_') || includes('hljs')
EditorClassTokens == {"monaco-editor", "vscode-dark", "ace_editor", "hljs"}

\* style.includes('monospace') || includes('Courier') || includes('Consolas')
MonospaceStyleTokens == {"font-family: monospace", "font-family: Courier", "font-family: Consolas"}

\* the name a class token gives to /language-(\w+)/
LanguageOf(token) ==
    CASE token = "language-js" -> <<"js">>
      [] token = "language-py" -> <<"py">>
      [] OTHER -> <<>>

\* (className + ' ' + codeClass).match(/language-(\w+)/): the first language token
RECURSIVE langMatch(_)
langMatch(tokens) ==
    IF tokens = <<>> THEN <<>>
    ELSE IF LanguageOf(Head(tokens)) # <<>> THEN LanguageOf(Head(tokens))
    ELSE langMatch(Tail(tokens))

CodeClass(n) == IF n.codeChild = <<>> THEN <<>> ELSE n.codeChild[1]

\* the grave accent U+0060, which a string of this module cannot hold
Backtick == "U+0060"

Fence == <<Backtick, Backtick, Backtick>>

\* the filter of every rule the code adds
RuleFilter(rule, n) ==
    CASE rule = "code" -> n.nodeName = "CODE"
      [] rule = "pre" -> n.nodeName = "PRE"
      [] rule = "idePaste" ->
            /\ \/ \E i \in 1..Len(n.class) : n.class[i] \in EditorClassTokens
               \/ \E i \in 1..Len(n.style) : n.style[i] \in MonospaceStyleTokens
            /\ n.nodeName \in {"DIV", "PRE"}
      [] rule = "mark" -> n.nodeName = "MARK"
      [] rule = "transparent" -> n.nodeName = "SPAN"
      [] rule = "paragraph" -> n.nodeName = "P"
      [] OTHER -> FALSE

BlockElements == {"DIV", "PRE", "P"}

\* the code rule without content.trim()
codeReplacementNoTrim(n) ==
    IF n.parent = "PRE" THEN n.text
    ELSE IF n.text # <<>> THEN (<<Backtick>> \o n.text) \o <<Backtick>> ELSE <<>>

\* replacement of the rule 'code'
codeReplacement(n) ==
    IF n.parent = "PRE" THEN n.text
    ELSE IF Trim(n.text) # <<>> THEN (<<Backtick>> \o Trim(n.text)) \o <<Backtick>> ELSE <<>>

\* the replacement of every rule; blank and default are turndown's own
RuleReplacement(rule, n) ==
    CASE rule = "code" -> codeReplacement(n)
      [] rule = "pre" ->
            ((((<<"\n", "\n">> \o Fence) \o langMatch(n.class \o CodeClass(n))) \o <<"\n">>)
              \o Trim(n.text)) \o ((<<"\n">> \o Fence) \o <<"\n", "\n">>)
      [] rule = "idePaste" ->
            (((<<"\n", "\n">> \o Fence) \o <<"\n">>) \o Trim(n.text))
              \o ((<<"\n">> \o Fence) \o <<"\n", "\n">>)
      [] rule = "mark" -> n.text
      [] rule = "transparent" -> n.text
      [] rule = "paragraph" ->
            IF Trim(n.text) # <<>> THEN (<<"\n">> \o Trim(n.text)) \o <<"\n">> ELSE <<>>
      [] rule = "blank" -> IF n.nodeName \in BlockElements THEN <<"\n", "\n">> ELSE <<>>
      [] OTHER ->
            IF n.nodeName \in BlockElements THEN (<<"\n", "\n">> \o n.text) \o <<"\n", "\n">>
            ELSE n.text

\* the addRule calls in source order
AddedRules == <<"code", "pre", "idePaste", "mark", "transparent", "paragraph">>

\* TurndownService.addRule puts the rule at the front of the rule array
\* (Rules.add is this.array.unshift(rule)): the rule added last is tried first
RECURSIVE RuleArray(_, _)
RuleArray(added, array) ==
    IF added = <<>> THEN array ELSE RuleArray(Tail(added), <<Head(added)>> \o array)

\* node.isBlank: an element without text (none of the modelled elements is void)
isBlank(n) == Trim(n.text) = <<>>

RECURSIVE findRule(_, _)
findRule(array, n) ==
    IF array = <<>> THEN "default"
    ELSE IF RuleFilter(Head(array), n) THEN Head(array)
    ELSE findRule(Tail(array), n)

\* Rules.forNode: the blank rule, then the first rule of the array whose filter
\* accepts the node (the built-in rules for p, pre and code come after the
\* added rules with the same filters and are never reached), then the default
forNode(n) == IF isBlank(n) THEN "blank" ELSE findRule(RuleArray(AddedRules, <<>>), n)

----------------------------------------------------------------------------
(* Specification SpecConvert: turndown converting one element *)

ConvChars == {"x", " ", "\n"}

HtmlNodes ==
    [nodeName : {"PRE", "DIV", "P", "SPAN", "CODE", "MARK"},
     class : {<<>>, <<"hljs">>, <<"language-js">>, <<"hljs", "language-js">>},
     style : {<<>>, <<"font-family: monospace">>},
     parent : {"DIV", "PRE"},
     codeChild : {<<>>, <<<<>>>>, <<<<"language-py">>>>},
     text : Texts(ConvChars, MaxHtmlTextLen)]

InitConvert ==
    /\ pc = "convert"
    /\ SearchIdle
    /\ TreeIdle
    /\ WorkspaceIdle
    /\ FilterIdle
    /\ TurndownIdle
    /\ PasteIdle
    /\ FailureIdle
    /\ StorageIdle
    /\ MainIdle
    /\ CloseIdle
    /\ SqliteIdle
    /\ node \in {n \in HtmlNodes : (n.codeChild # <<>> => n.nodeName \in {"PRE", "DIV"})
                                    /\ (n.parent = "PRE" => n.nodeName = "CODE")}
    /\ appliedRule = ""
    /\ markdown = <<>>

ChooseRule ==
    /\ pc = "convert"
    /\ appliedRule' = forNode(node)
    /\ pc' = "rule"
    /\ UNCHANGED <<searchVars, treeVars, appVars, workspaceVars, filterVars, turndownVars, pasteVars, node, markdown, failureVars, storageVars, mainVars, closeVars, sqliteVars>>

Replace ==
    /\ pc = "rule"
    /\ markdown' = RuleReplacement(appliedRule, node)
    /\ pc' = "done"
    /\ UNCHANGED <<searchVars, treeVars, appVars, workspaceVars, filterVars, turndownVars, pasteVars, node, appliedRule, failureVars, storageVars, mainVars, closeVars, sqliteVars>>

NextConvert == ChooseRule \/ Replace

SpecConvert == InitConvert /\ [][NextConvert]_vars

----------------------------------------------------------------------------
(* Workspace.tsx / Sidebar.tsx: turndown(html), the whole conversion.  The   *)
(* HTML is a fragment of two sibling nodes, each a p element holding one     *)
(* text or a text of the fragment itself; a text is a sequence of characters *)
(* and character references.                                                 *)

HtmlTokens == {"x", " ", Nbsp, "&nbsp;", "&#160;"}

\* html.replace(/\u00a0/g, ' ').replace(/&nbsp;/g, ' ')
cleanText(t) == [i \in 1..Len(t) |-> IF t[i] \in {Nbsp, "&nbsp;"} THEN " " ELSE t[i]]

\* the HTML parser of turndownService.turndown decodes the character references
decodeEntities(t) == [i \in 1..Len(t) |-> IF t[i] \in {"&nbsp;", "&#160;"} THEN Nbsp ELSE t[i]]

AsciiWhitespace == {" ", "\n", "\t", "\r"}

RECURSIVE skipAsciiWhitespace(_)
skipAsciiWhitespace(t) ==
    IF t # <<>> /\ Head(t) \in AsciiWhitespace THEN skipAsciiWhitespace(Tail(t)) ELSE t

\* turndown's collapseWhitespace: text.replace(/[ \r\n\t]+/g, ' ')
RECURSIVE collapseRuns(_)
collapseRuns(t) ==
    IF t = <<>> THEN <<>>
    ELSE IF Head(t) \in AsciiWhitespace THEN <<" ">> \o collapseRuns(skipAsciiWhitespace(t))
    ELSE <<Head(t)>> \o collapseRuns(Tail(t))

stripTrailingSpace(t) ==
    IF t # <<>> /\ t[Len(t)] = " " THEN SubSeq(t, 1, Len(t) - 1) ELSE t

\* turndown's collapseWhitespace over the nodes in document order: prev is the
\* position in acc of the last text kept (prevText), 0 for none; a block
\* element ends the text before it, a text loses its leading space at the
\* start of a block or after a text that ends with a space
RECURSIVE collapseWhitespace(_, _, _)
collapseWhitespace(nodes, acc, prev) ==
    IF nodes = <<>>
    THEN IF prev = 0 THEN acc ELSE [acc EXCEPT ![prev].text = stripTrailingSpace(@)]
    ELSE LET n == Head(nodes)
             isBlock == n.nodeName \in BlockElements
             acc1 == IF isBlock /\ prev # 0
                     THEN [acc EXCEPT ![prev].text = stripTrailingSpace(@)] ELSE acc
             prev1 == IF isBlock THEN 0 ELSE prev
             t == collapseRuns(n.text)
             afterSpace == IF prev1 = 0 THEN TRUE
                           ELSE LET pt == acc1[prev1].text
                                IN pt # <<>> /\ pt[Len(pt)] = " "
             text == IF afterSpace /\ t # <<>> /\ Head(t) = " " THEN Tail(t) ELSE t
         IN collapseWhitespace(Tail(nodes), Append(acc1, [n EXCEPT !.text = text]),
                               IF text = <<>> THEN prev1 ELSE Len(acc1) + 1)

RECURSIVE trimLeadingNewlines(_)
trimLeadingNewlines(t) ==
    IF t # <<>> /\ Head(t) = "\n" THEN trimLeadingNewlines(Tail(t)) ELSE t

RECURSIVE trimTrailingNewlines(_)
trimTrailingNewlines(t) ==
    IF t # <<>> /\ t[Len(t)] = "\n" THEN trimTrailingNewlines(SubSeq(t, 1, Len(t) - 1)) ELSE t

Max(a, b) == IF a >= b THEN a ELSE b

\* turndown's join(output, replacement): the two are separated by the longer
\* of the newline runs that meet, at most two newlines
join(out, replacement) ==
    LET s1 == trimTrailingNewlines(out)
        s2 == trimLeadingNewlines(replacement)
        nls == Max(Len(out) - Len(s1), Len(replacement) - Len(s2))
    IN (s1 \o SubSeq(<<"\n", "\n">>, 1, Min(nls, 2))) \o s2

\* the element of the rule table a p node of the fragment is
elementOf(n) ==
    [nodeName |-> n.nodeName, class |-> <<>>, style |-> <<>>, parent |-> "DIV",
     codeChild |-> <<>>, text |-> n.text]

\* turndown's replacementForNode; a text node is its text ("x" needs no escape)
replacementForNode(n) ==
    IF n.nodeName = "#text" THEN n.text
    ELSE RuleReplacement(forNode(elementOf(n)), elementOf(n))

\* turndown's process(parentNode): the replacements of the child nodes joined;
\* collapseWhitespace has removed a text that became empty
RECURSIVE process(_, _)
process(nodes, out) ==
    IF nodes = <<>> THEN out
    ELSE LET n == Head(nodes)
         IN process(Tail(nodes),
                    IF n.nodeName = "#text" /\ n.text = <<>> THEN out
                    ELSE join(out, replacementForNode(n)))

RECURSIVE dropLeading(_, _)
dropLeading(t, set) == IF t # <<>> /\ Head(t) \in set THEN dropLeading(Tail(t), set) ELSE t

\* turndown's postProcess: output.replace(/^[\t\r\n]+/, '').replace(/[\t\r\n\s]+$/, '')
turndownPostProcess(o) == TrimEnd(dropLeading(o, {"\t", "\r", "\n"}))

\* md.split('\n')
RECURSIVE splitLines(_, _)
splitLines(t, line) ==
    IF t = <<>> THEN <<line>>
    ELSE IF Head(t) = "\n" THEN <<line>> \o splitLines(Tail(t), <<>>)
    ELSE splitLines(Tail(t), Append(line, Head(t)))

\* .join('\n')
RECURSIVE joinLines(_)
joinLines(lines) ==
    IF Len(lines) = 1 THEN lines[1] ELSE (lines[1] \o <<"\n">>) \o joinLines(Tail(lines))

\* md.split('\n').map(line => line.trimEnd()).join('\n')
trimLines(t) ==
    LET lines == splitLines(t, <<>>)
    IN joinLines([i \in 1..Len(lines) |-> TrimEnd(lines[i])])

\* .replace(/\n{3,}/g, '\n\n'); run counts the newlines of the run already kept
RECURSIVE collapseNewlines(_, _)
collapseNewlines(t, run) ==
    IF t = <<>> THEN <<>>
    ELSE IF Head(t) = "\n"
         THEN IF run >= 2 THEN collapseNewlines(Tail(t), run)
              ELSE <<"\n">> \o collapseNewlines(Tail(t), run + 1)
    ELSE <<Head(t)>> \o collapseNewlines(Tail(t), 0)

\* the post-processing without the line.trimEnd() pass
postprocessNoLineTrim(m) == Trim(collapseNewlines(m, 0))

\* the post-processing with the newline runs collapsed before the lines are trimmed
postprocessCollapseFirst(m) == Trim(trimLines(collapseNewlines(m, 0)))

\* step 3 of turndown(html) and its return value
postprocess(m) == Trim(collapseNewlines(trimLines(m), 0))

----------------------------------------------------------------------------
(* Specification SpecTurndown: turndown(html) for a fragment of two nodes *)

HtmlFragmentNodes ==
    [nodeName : {"P", "#text"}, text : Texts(HtmlTokens, MaxNodeTextLen)]

\* an HTML parser never yields two adjacent texts
HtmlFragments ==
    {f \in HtmlFragmentNodes \X HtmlFragmentNodes :
        ~(f[1].nodeName = "#text" /\ f[2].nodeName = "#text")}

InitTurndown ==
    /\ pc = "turndown"
    /\ SearchIdle
    /\ TreeIdle
    /\ WorkspaceIdle
    /\ FilterIdle
    /\ ConvertIdle
    /\ PasteIdle
    /\ FailureIdle
    /\ StorageIdle
    /\ MainIdle
    /\ CloseIdle
    /\ SqliteIdle
    /\ html \in HtmlFragments
    /\ cleanHtml = <<>>
    /\ dom = <<>>
    /\ md = <<>>
    /\ output = <<>>

\* 1. Replace NBSP with normal spaces and clean HTML entities
CleanHtml ==
    /\ pc = "turndown"
    /\ cleanHtml' = [i \in 1..Len(html) |-> [html[i] EXCEPT !.text = cleanText(@)]]
    /\ pc' = "cleaned"
    /\ UNCHANGED <<searchVars, treeVars, appVars, workspaceVars, filterVars, convertVars,
                   pasteVars, html, dom, md, output, failureVars, storageVars, mainVars, closeVars, sqliteVars>>

\* 2. turndownService.turndown(cleanHtml): parse, collapse the white space,
\* convert the nodes, post-process
TurndownServiceTurndown ==
    /\ pc = "cleaned"
    /\ dom' = collapseWhitespace(
                 [i \in 1..Len(cleanHtml) |->
                     [cleanHtml[i] EXCEPT !.text = decodeEntities(@)]], <<>>, 0)
    /\ md' = turndownPostProcess(process(dom', <<>>))
    /\ pc' = "converted"
    /\ UNCHANGED <<searchVars, treeVars, appVars, workspaceVars, filterVars, convertVars,
                   pasteVars, html, cleanHtml, output, failureVars, storageVars, mainVars, closeVars, sqliteVars>>

\* 3. Post-process: collapse excessive newlines and trim each line
Postprocess ==
    /\ pc = "converted"
    /\ output' = postprocess(md)
    /\ pc' = "done"
    /\ UNCHANGED <<searchVars, treeVars, appVars, workspaceVars, filterVars, convertVars,
                   pasteVars, html, cleanHtml, dom, md, failureVars, storageVars, mainVars, closeVars, sqliteVars>>

NextTurndown == CleanHtml \/ TurndownServiceTurndown \/ Postprocess

SpecTurndown == InitTurndown /\ [][NextTurndown]_vars

----------------------------------------------------------------------------
(* Specification SpecPostprocess: step 3 of turndown(html) applied to every *)
(* text turndownService.turndown can return                                  *)

MdChars == {"x", " ", "\n"}

InitPostprocess ==
    /\ pc = "converted"
    /\ SearchIdle
    /\ TreeIdle
    /\ WorkspaceIdle
    /\ FilterIdle
    /\ ConvertIdle
    /\ PasteIdle
    /\ FailureIdle
    /\ StorageIdle
    /\ MainIdle
    /\ CloseIdle
    /\ SqliteIdle
    /\ html = <<>>
    /\ cleanHtml = <<>>
    /\ dom = <<>>
    /\ md \in {turndownPostProcess(t) : t \in Texts(MdChars, MaxMdLen)}
    /\ output = <<>>

SpecPostprocess == InitPostprocess /\ [][Postprocess]_vars

----------------------------------------------------------------------------
(* Workspace.tsx / Sidebar.tsx: the paste handler of the editor textarea.    *)
(* The clipboard HTML is the serialization, character by character, of one   *)
(* element around a word.                                                    *)

\* the characters of a tag name, of a class token and of a style declaration
CharsOf(token) ==
    CASE token = "DIV" -> <<"d", "i", "v">>
      [] token = "SPAN" -> <<"s", "p", "a", "n">>
      [] token = "P" -> <<"p">>
      [] token = "PRE" -> <<"p", "r", "e">>
      [] token = "hljs" -> <<"h", "l", "j", "s">>
      [] token = "font-family: Consolas" -> <<"f", "o", "n", "t", "-", "f", "a", "m", "i", "l", "y", ":", " ", "C", "o", "n", "s", "o", "l", "a", "s">>
      [] OTHER -> <<>>

\* the element as the clipboard's text/html holds it
Serialize(el) ==
    LET name == CharsOf(el.nodeName)
        class == IF el.class = <<>> THEN <<>>
                 ELSE (<<" ", "c", "l", "a", "s", "s", "=", "\"">> \o CharsOf(el.class[1])) \o <<"\"">>
        style == IF el.style = <<>> THEN <<>>
                 ELSE (<<" ", "s", "t", "y", "l", "e", "=", "\"">> \o CharsOf(el.style[1])) \o <<"\"">>
    IN (((((<<"<">> \o name) \o class) \o style) \o <<">">>) \o el.text)
         \o ((<<"<", "/">> \o name) \o <<">">>)

PasteWords == {<<"h", "i">>, <<"i", "t", "e", "m">>, <<"e", "m", "_">>}

PasteElements ==
    [nodeName : {"DIV", "SPAN", "P", "PRE"},
     class : {<<>>, <<"hljs">>},
     style : {<<>>, <<"font-family: Consolas">>},
     parent : {"DIV"},
     codeChild : {<<>>},
     text : PasteWords]

\* the HTML parser: the element a serialization came from
ParseHtml(h) == CHOOSE el \in PasteElements : Serialize(el) = h

\* the i flag of the two tests
AsciiLower(c) == IF c = "C" THEN "c" ELSE c

Digits == {"0", "1", "2", "3", "4", "5", "6", "7", "8", "9"}

\* w occurs in h, case ignored
Includes(h, w) ==
    \E i \in 1..(Len(h) - Len(w) + 1) :
        \A k \in 1..Len(w) : AsciiLower(h[i + k - 1]) = AsciiLower(w[k])

\* /<p|h\d|ul|ol|li|table|tr|td|blockquote|pre|code|strong|em/i
RichContentWords ==
    {<<"<", "p">>,
     <<"u", "l">>,
     <<"o", "l">>,
     <<"l", "i">>,
     <<"t", "a", "b", "l", "e">>,
     <<"t", "r">>,
     <<"t", "d">>,
     <<"b", "l", "o", "c", "k", "q", "u", "o", "t", "e">>,
     <<"p", "r", "e">>,
     <<"c", "o", "d", "e">>,
     <<"s", "t", "r", "o", "n", "g">>,
     <<"e", "m">>}

hasRichContent(h) ==
    \/ \E w \in RichContentWords : Includes(h, w)
    \/ \E i \in 1..(Len(h) - 1) : AsciiLower(h[i]) = "h" /\ h[i + 1] \in Digits

\* /monospace|monaco|vscode|consolas|courier|hljs|ace_/i
CodeIndicatorWords ==
    {<<"m", "o", "n", "o", "s", "p", "a", "c", "e">>,
     <<"m", "o", "n", "a", "c", "o">>,
     <<"v", "s", "c", "o", "d", "e">>,
     <<"c", "o", "n", "s", "o", "l", "a", "s">>,
     <<"c", "o", "u", "r", "i", "e", "r">>,
     <<"h", "l", "j", "s">>,
     <<"a", "c", "e", "_">>}

hasCodeIndicators(h) == \E w \in CodeIndicatorWords : Includes(h, w)

\* turndown's escape of a text: a backslash before * and _
RECURSIVE turndownEscape(_)
turndownEscape(t) ==
    IF t = <<>> THEN <<>>
    ELSE (IF Head(t) \in {"*", "_"} THEN <<"\\", Head(t)>> ELSE <<Head(t)>>)
         \o turndownEscape(Tail(t))

\* turndown(html) for the serialization of one element around a word
turndown(h) ==
    LET parsed == ParseHtml(h)
        el == [parsed EXCEPT !.text = turndownEscape(cleanText(@))]
    IN postprocess(turndownPostProcess(join(<<>>, RuleReplacement(forNode(el), el))))

\* the insertion that leaves the selected range in place
SpliceKeepSelection(val, start, end, inserted) ==
    (SubSeq(val, 1, start) \o inserted) \o SubSeq(val, start + 1, Len(val))

\* val.substring(0, start) + inserted + val.substring(end)
Splice(val, start, end, inserted) ==
    (SubSeq(val, 1, start) \o inserted) \o SubSeq(val, end + 1, Len(val))

----------------------------------------------------------------------------
(* Specification SpecPaste: one paste into the editor textarea *)

Clipboards ==
    {[html |-> Serialize(el), text |-> el.text] : el \in PasteElements}
    \cup {[html |-> <<>>, text |-> w] : w \in PasteWords}

Textareas ==
    {t \in [value : Texts({"a", "b"}, MaxValueLen),
            selectionStart : 0..MaxValueLen,
            selectionEnd : 0..MaxValueLen] :
        t.selectionStart <= t.selectionEnd /\ t.selectionEnd <= Len(t.value)}

\* the notes of MainApp: the active note is shown in the textarea
EditedNotes(id, val) ==
    {ns \in [NoteIds -> {val, <<"b">>}] : ns[id] = val /\ \A n \in NoteIds \ {id} : ns[n] = <<"b">>}

InitPaste ==
    /\ pc = "paste"
    /\ SearchIdle
    /\ TreeIdle
    /\ FilterIdle
    /\ ConvertIdle
    /\ TurndownIdle
    /\ FailureIdle
    /\ StorageIdle
    /\ MainIdle
    /\ CloseIdle
    /\ SqliteIdle
    /\ clipboard \in Clipboards
    /\ textarea \in Textareas
    /\ activeNoteId \in NoteIds
    /\ notes \in EditedNotes(activeNoteId, textarea.value)
    /\ navigatedSearchQuery = <<>>
    /\ editorViewMode = "raw"
    /\ isSearchVisible = FALSE
    /\ searchQuery = <<>>
    /\ searchOptions = [caseSensitive |-> FALSE, wholeWord |-> FALSE]
    /\ currentMatchIndex = 0
    /\ timers = <<>>
    /\ renderPending = FALSE
    /\ defaultPrevented = FALSE
    /\ noteContent = textarea.value
    /\ caret = textarea.selectionEnd
    /\ selection = NoNode

\* MainApp's handleUpdateNoteContent: prev.map(n => n.id === noteId ? updatedNote : n)
onUpdateNoteContent(noteId, newContent) ==
    notes' = [n \in NoteIds |-> IF n = noteId THEN newContent ELSE notes[n]]

\* textarea onPaste, the conversion taken
PasteConverted ==
    /\ pc = "paste"
    /\ clipboard.html # <<>>
    /\ hasRichContent(clipboard.html) \/ hasCodeIndicators(clipboard.html)
    /\ defaultPrevented' = TRUE
    /\ LET markdown_ == turndown(clipboard.html)
       IN /\ noteContent' = Splice(textarea.value, textarea.selectionStart,
                                   textarea.selectionEnd, markdown_)
          /\ caret' = textarea.selectionStart + Len(markdown_)
    /\ onUpdateNoteContent(activeNoteId, noteContent')
    /\ pc' = "pasted"
    /\ UNCHANGED <<searchVars, treeVars, activeNoteId, navigatedSearchQuery, editorViewMode,
                   workspaceVars, filterVars, convertVars,
                   turndownVars, clipboard, textarea, selection, failureVars, storageVars, mainVars, closeVars, sqliteVars>>

\* textarea onPaste returns without preventDefault: the browser inserts the
\* text/plain of the clipboard and the textarea's onChange stores the value
PasteDefault ==
    /\ pc = "paste"
    /\ ~(/\ clipboard.html # <<>>
         /\ hasRichContent(clipboard.html) \/ hasCodeIndicators(clipboard.html))
    /\ defaultPrevented' = FALSE
    /\ noteContent' = Splice(textarea.value, textarea.selectionStart,
                             textarea.selectionEnd, clipboard.text)
    /\ caret' = textarea.selectionStart + Len(clipboard.text)
    /\ onUpdateNoteContent(activeNoteId, noteContent')
    /\ pc' = "pasted"
    /\ UNCHANGED <<searchVars, treeVars, activeNoteId, navigatedSearchQuery, editorViewMode,
                   workspaceVars, filterVars, convertVars,
                   turndownVars, clipboard, textarea, selection, failureVars, storageVars, mainVars, closeVars, sqliteVars>>

NextPaste == PasteConverted \/ PasteDefault

SpecPaste == InitPaste /\ [][NextPaste]_vars

----------------------------------------------------------------------------
(* Workspace.tsx: copying from the rendered preview (viewMode 'markdown'),   *)
(* by the copy event of the preview and by the context menu                  *)

\* the rich-text slot without the div around the HTML
WrapNone(h) == h

\* `<div style="font-family: sans-serif;">${html}</div>`
Wrap(h) ==
    (<<"<", "d", "i", "v", " ", "s", "t", "y", "l", "e", "=", "\"", "f", "o", "n", "t", "-", "f", "a", "m", "i", "l", "y", ":", " ", "s", "a", "n", "s", "-", "s", "e", "r", "i", "f", ";", "\"", ">">>
       \o h) \o <<"<", "/", "d", "i", "v", ">">>

InitCopy ==
    /\ pc = "copy"
    /\ SearchIdle
    /\ TreeIdle
    /\ WorkspaceIdle
    /\ FilterIdle
    /\ ConvertIdle
    /\ TurndownIdle
    /\ FailureIdle
    /\ StorageIdle
    /\ MainIdle
    /\ CloseIdle
    /\ SqliteIdle
    /\ clipboard = NoClipboard
    /\ textarea = NoTextarea
    /\ defaultPrevented = FALSE
    /\ noteContent = <<>>
    /\ caret = 0
    /\ selection \in PasteElements \cup {NoNode}

\* onCopy of the preview container
PreviewCopy ==
    /\ pc = "copy"
    /\ IF selection = NoNode
       THEN UNCHANGED <<clipboard, defaultPrevented>>
       ELSE LET html_ == Serialize(selection)
            IN /\ clipboard' = [text |-> turndown(html_), html |-> Wrap(html_)]
               /\ defaultPrevented' = TRUE
    /\ pc' = "copied"
    /\ UNCHANGED <<searchVars, treeVars, appVars, workspaceVars, filterVars, convertVars,
                   turndownVars, textarea, noteContent, caret, selection, failureVars, storageVars, mainVars, closeVars, sqliteVars>>

\* handleCopySelection with viewMode 'markdown'; written tells whether
\* navigator.clipboard.write succeeded, the fallback being writeText(markdown)
handleCopySelection(written) ==
    /\ pc = "copy"
    /\ IF selection = NoNode
       THEN /\ UNCHANGED clipboard
            /\ pc' = "copied"
       ELSE LET html_ == Serialize(selection)
            IN IF written
               THEN /\ clipboard' = [text |-> turndown(html_), html |-> Wrap(html_)]
                    /\ pc' = "copied"
               ELSE /\ clipboard' = [text |-> turndown(html_), html |-> <<>>]
                    /\ pc' = "copiedText"
    /\ UNCHANGED <<searchVars, treeVars, appVars, workspaceVars, filterVars, convertVars,
                   turndownVars, textarea, defaultPrevented, noteContent, caret, selection, failureVars, storageVars, mainVars, closeVars, sqliteVars>>

NextCopy == PreviewCopy \/ \E written \in BOOLEAN : handleCopySelection(written)

SpecCopy == InitCopy /\ [][NextCopy]_vars

----------------------------------------------------------------------------
(* The consumers of the matcher when new RegExp(pattern, flags) throws: the *)
(* try/catch of each decides what its caller gets                           *)

\* getHighlightParts: content.split(new RegExp(pattern, flags)) stands outside
\* the try, which guards only the test of the parts
getHighlightPartsOrThrow(c, q, o, throws) ==
    IF c = <<>> THEN [thrown |-> FALSE, parts |-> <<>>]
    ELSE IF q = <<>> THEN [thrown |-> FALSE, parts |-> <<[text |-> c, isMatch |-> FALSE]>>]
    ELSE IF throws THEN [thrown |-> TRUE, parts |-> <<>>]
    ELSE [thrown |-> FALSE, parts |-> getHighlightParts(c, q, o)]

\* searchMatchesCount: try { content.match(new RegExp(...)) } catch { return 0 }
searchMatchesOrNone(c, q, o, throws) ==
    IF q = <<>> \/ c = <<>> THEN <<>>
    ELSE IF throws THEN <<>>
    ELSE searchMatches(c, q, o)

\* filteredNotes: try { ... notes.filter(...) } catch { return notes }
quickNotesFilterCatch(items, q, o, throws) ==
    IF q = <<>> THEN items
    ELSE IF throws THEN items
    ELSE quickNotesFilter(items, q, o)

\* searchResults: try { regex = new RegExp(...) } catch (e) { return { projects: [], notes: [] } }
sidebarSearchCatch(projects, items, q, o, throws) ==
    IF q = <<>> THEN [projects |-> <<>>, notes |-> <<>>]
    ELSE IF throws THEN [projects |-> <<>>, notes |-> <<>>]
    ELSE sidebarSearch(projects, items, q, o)

----------------------------------------------------------------------------
(* Specification SpecFailure: every consumer run for one content and query, *)
(* the RegExp constructor throwing or not                                   *)

InitFailure ==
    /\ pc = "consumers"
    /\ content \in Texts(Chars, MaxContentLen)
    /\ query \in Texts(Chars, MaxQueryLen)
    /\ options \in SearchOptionsSet
    /\ parts = <<>>
    /\ matches = <<>>
    /\ TreeIdle
    /\ WorkspaceIdle
    /\ ConvertIdle
    /\ TurndownIdle
    /\ PasteIdle
    /\ filterProjects = <<>>
    /\ filterNotes = <<[id |-> 1, title |-> <<>>, content |-> content]>>
    /\ filteredNotes = <<>>
    /\ searchResults = [projects |-> <<>>, notes |-> <<>>]
    /\ regExpThrows \in BOOLEAN
    /\ thrown = {}
    /\ StorageIdle
    /\ MainIdle
    /\ CloseIdle
    /\ SqliteIdle

HighlightOrThrow ==
    /\ pc = "consumers"
    /\ LET r == getHighlightPartsOrThrow(content, query, options, regExpThrows)
       IN /\ parts' = r.parts
          /\ thrown' = IF r.thrown THEN thrown \cup {"getHighlightParts"} ELSE thrown
    /\ pc' = "highlighted"
    /\ UNCHANGED <<content, query, options, matches, treeVars, appVars, workspaceVars,
                   filterVars, convertVars, turndownVars, pasteVars, regExpThrows, storageVars, mainVars, closeVars, sqliteVars>>

CountOrZero ==
    /\ pc = "highlighted"
    /\ matches' = searchMatchesOrNone(content, query, options, regExpThrows)
    /\ pc' = "counted"
    /\ UNCHANGED <<content, query, options, parts, treeVars, appVars, workspaceVars,
                   filterVars, convertVars, turndownVars, pasteVars, failureVars, storageVars, mainVars, closeVars, sqliteVars>>

FilterOrAll ==
    /\ pc = "counted"
    /\ filteredNotes' = quickNotesFilterCatch(filterNotes, query, options, regExpThrows)
    /\ pc' = "filtered"
    /\ UNCHANGED <<searchVars, treeVars, appVars, workspaceVars, filterProjects, filterNotes,
                   searchResults, convertVars, turndownVars, pasteVars, failureVars, storageVars, mainVars, closeVars, sqliteVars>>

SearchOrNone ==
    /\ pc = "filtered"
    /\ searchResults' = sidebarSearchCatch(filterProjects, filterNotes, query, options,
                                           regExpThrows)
    /\ pc' = "done"
    /\ UNCHANGED <<searchVars, treeVars, appVars, workspaceVars, filterProjects, filterNotes,
                   filteredNotes, convertVars, turndownVars, pasteVars, failureVars, storageVars, mainVars, closeVars, sqliteVars>>

NextFailure == HighlightOrThrow \/ CountOrZero \/ FilterOrAll \/ SearchOrNone

SpecFailure == InitFailure /\ [][NextFailure]_vars

----------------------------------------------------------------------------
(* Specification SpecSearch: getHighlightParts and searchMatchesCount applied *)
(* to every content, query and option pair within the bounds                  *)

InitSearch ==
    /\ pc = "search"
    /\ content \in Texts(Chars, MaxContentLen)
    /\ query \in Texts(Chars, MaxQueryLen)
    /\ options \in SearchOptionsSet
    /\ parts = <<>>
    /\ matches = <<>>
    /\ TreeIdle
    /\ WorkspaceIdle
    /\ FilterIdle
    /\ ConvertIdle
    /\ TurndownIdle
    /\ PasteIdle
    /\ FailureIdle
    /\ StorageIdle
    /\ MainIdle
    /\ CloseIdle
    /\ SqliteIdle

Highlight ==
    /\ pc = "search"
    /\ parts' = getHighlightParts(content, query, options)
    /\ pc' = "highlighted"
    /\ UNCHANGED <<content, query, options, matches, treeVars, appVars, workspaceVars, filterVars, convertVars, turndownVars, pasteVars, failureVars, storageVars, mainVars, closeVars, sqliteVars>>

CountMatches ==
    /\ pc = "highlighted"
    /\ matches' = searchMatches(content, query, options)
    /\ pc' = "done"
    /\ UNCHANGED <<content, query, options, parts, treeVars, appVars, workspaceVars, filterVars, convertVars, turndownVars, pasteVars, failureVars, storageVars, mainVars, closeVars, sqliteVars>>

NextSearch == Highlight \/ CountMatches

SpecSearch == InitSearch /\ [][NextSearch]_vars

----------------------------------------------------------------------------
(* Specification SpecTree: one document shown in the raw view and in the      *)
(* preview; the leaves of the preview tree, concatenated, are the raw text    *)

\* the ways to cut text t into at most n non-empty leaves
RECURSIVE Splits(_, _)
Splits(t, n) ==
    IF t = <<>> THEN {<<>>}
    ELSE IF n = 0 THEN {}
    ELSE UNION { {<<SubSeq(t, 1, k)>> \o rest : rest \in Splits(SubSeq(t, k + 1, Len(t)), n - 1)}
                 : k \in 1..Len(t) }

Trees(t) ==
    UNION { {[i \in 1..Len(s) |-> [tag |-> tags[i], text |-> s[i]]] :
                tags \in [1..Len(s) -> LeafTags]} : s \in Splits(t, MaxLeaves) }

InitTree ==
    /\ pc = "tree"
    /\ content \in Texts(TreeChars, MaxRawLen)
    /\ tree \in Trees(content)
    /\ query \in Texts(TreeChars, MaxQueryLen)
    /\ options \in SearchOptionsSet
    /\ parts = <<>>
    /\ matches = <<>>
    /\ rawMarks = <<>>
    /\ previewMarks = <<>>
    /\ WorkspaceIdle
    /\ FilterIdle
    /\ ConvertIdle
    /\ TurndownIdle
    /\ PasteIdle
    /\ FailureIdle
    /\ StorageIdle
    /\ MainIdle
    /\ CloseIdle
    /\ SqliteIdle

RenderRaw ==
    /\ pc = "tree"
    /\ rawMarks' = HighlightBackdrop(content, query, options)
    /\ matches' = searchMatches(content, query, options)
    /\ pc' = "raw"
    /\ UNCHANGED <<content, query, options, parts, tree, previewMarks, appVars, workspaceVars, filterVars, convertVars, turndownVars, pasteVars, failureVars, storageVars, mainVars, closeVars, sqliteVars>>

RenderPreview ==
    /\ pc = "raw"
    /\ previewMarks' = HighlightElements(tree, query, options, 0)
    /\ pc' = "done"
    /\ UNCHANGED <<searchVars, tree, rawMarks, appVars, workspaceVars, filterVars, convertVars, turndownVars, pasteVars, failureVars, storageVars, mainVars, closeVars, sqliteVars>>

NextTree == RenderRaw \/ RenderPreview

SpecTree == InitTree /\ [][NextTree]_vars

----------------------------------------------------------------------------
(* Specification Spec: the Workspace of MainApp, its in-file search bar and    *)
(* the match navigator                                                         *)

\* activeNote.content (the empty text when there is no active note)
ActiveContent == IF activeNoteId = NoNote THEN <<>> ELSE notes[activeNoteId]

\* the memoized searchMatchesCount of the current render
Total == searchMatchesCount(ActiveContent, searchQuery, searchOptions)

Init ==
    /\ pc = "app"
    /\ SearchIdle
    /\ TreeIdle
    /\ FilterIdle
    /\ ConvertIdle
    /\ TurndownIdle
    /\ PasteIdle
    /\ FailureIdle
    /\ StorageIdle
    /\ MainIdle
    /\ CloseIdle
    /\ SqliteIdle
    /\ notes \in [NoteIds -> Texts(NavChars, MaxNoteLen)]
    /\ activeNoteId \in NoteIds \cup {NoNote}
    /\ navigatedSearchQuery = <<>>
    /\ editorViewMode \in ViewModes
    /\ isSearchVisible = FALSE
    /\ searchQuery = <<>>
    /\ searchOptions = [caseSensitive |-> FALSE, wholeWord |-> FALSE]
    /\ currentMatchIndex = 0
    /\ timers = <<>>
    /\ renderPending = FALSE

\* The effect with dependencies [initialSearchQuery, activeNoteId, onViewModeChange].
\* MainApp passes onViewModeChange as an inline arrow function, so the effect
\* runs after every render of MainApp; isq and vm are the props of that render,
\* later tells that MainApp has another state update scheduled.  With a query
\* the effect calls onViewModeChange('raw'), which sets MainApp state again.
\* pending are the callbacks still waiting; a callback records the viewMode its
\* scrollToMatch closes over and whether a later command has been applied since
WorkspaceEffect(isq, vm, later, pending) ==
    IF isq # <<>>
    THEN /\ Len(timers) < MaxTimers
         /\ searchQuery' = isq
         /\ isSearchVisible' = TRUE
         /\ editorViewMode' = "raw"
         /\ timers' = Append(pending, [viewMode |-> vm, superseded |-> FALSE])
         /\ renderPending' = TRUE
    ELSE /\ isSearchVisible' = FALSE
         /\ searchQuery' = <<>>
         /\ editorViewMode' = vm
         /\ timers' = pending
         /\ renderPending' = later

\* a query change, a document change or next()/prev() has been applied: the
\* callbacks scheduled before are those of an earlier event
Superseded(pending) == [i \in 1..Len(pending) |-> [pending[i] EXCEPT !.superseded = TRUE]]

\* the search input's onChange
SearchInputChange(q) ==
    /\ activeNoteId # NoNote
    /\ isSearchVisible
    /\ searchQuery' = q
    /\ currentMatchIndex' = 0
    /\ timers' = Superseded(timers)
    /\ UNCHANGED <<pc, searchVars, treeVars, filterVars, convertVars, turndownVars, pasteVars, appVars, isSearchVisible, searchOptions,
                   renderPending, failureVars, storageVars, mainVars, closeVars, sqliteVars>>

ToggleCaseSensitive ==
    /\ activeNoteId # NoNote
    /\ isSearchVisible
    /\ searchOptions' = [searchOptions EXCEPT !.caseSensitive = ~searchOptions.caseSensitive]
    /\ UNCHANGED <<pc, searchVars, treeVars, filterVars, convertVars, turndownVars, pasteVars, appVars, isSearchVisible, searchQuery,
                   currentMatchIndex, timers, renderPending, failureVars, storageVars, mainVars, closeVars, sqliteVars>>

ToggleWholeWord ==
    /\ activeNoteId # NoNote
    /\ isSearchVisible
    /\ searchOptions' = [searchOptions EXCEPT !.wholeWord = ~searchOptions.wholeWord]
    /\ UNCHANGED <<pc, searchVars, treeVars, filterVars, convertVars, turndownVars, pasteVars, appVars, isSearchVisible, searchQuery,
                   currentMatchIndex, timers, renderPending, failureVars, storageVars, mainVars, closeVars, sqliteVars>>

toggleSearch ==
    /\ activeNoteId # NoNote
    /\ IF isSearchVisible
       THEN isSearchVisible' = FALSE /\ searchQuery' = <<>>
       ELSE isSearchVisible' = TRUE /\ searchQuery' = searchQuery
    /\ UNCHANGED <<pc, searchVars, treeVars, filterVars, convertVars, turndownVars, pasteVars, appVars, searchOptions, currentMatchIndex, timers,
                   renderPending, failureVars, storageVars, mainVars, closeVars, sqliteVars>>

\* scrollToMatch(index): scrolls, then setCurrentMatchIndex(index)
scrollToMatch(index) == currentMatchIndex' = index

nextIndex(i, total) == (i + 1) % total

prevIndex(i, total) == (i - 1 + total) % total

handleNextMatch ==
    /\ activeNoteId # NoNote
    /\ isSearchVisible
    /\ IF Total = 0 THEN UNCHANGED <<currentMatchIndex, timers>>
       ELSE /\ scrollToMatch(nextIndex(currentMatchIndex, Total))
            /\ timers' = Superseded(timers)
    /\ UNCHANGED <<pc, searchVars, treeVars, filterVars, convertVars, turndownVars, pasteVars, appVars, isSearchVisible, searchQuery,
                   searchOptions, renderPending, failureVars, storageVars, mainVars, closeVars, sqliteVars>>

handlePrevMatch ==
    /\ activeNoteId # NoNote
    /\ isSearchVisible
    /\ IF Total = 0 THEN UNCHANGED <<currentMatchIndex, timers>>
       ELSE /\ scrollToMatch(prevIndex(currentMatchIndex, Total))
            /\ timers' = Superseded(timers)
    /\ UNCHANGED <<pc, searchVars, treeVars, filterVars, convertVars, turndownVars, pasteVars, appVars, isSearchVisible, searchQuery,
                   searchOptions, renderPending, failureVars, storageVars, mainVars, closeVars, sqliteVars>>

\* the textarea's onChange: handleUpdateNoteContent sets MainApp's notes
handleUpdateNoteContent(c) ==
    /\ activeNoteId # NoNote
    /\ editorViewMode = "raw"
    /\ notes' = [notes EXCEPT ![activeNoteId] = c]
    /\ WorkspaceEffect(navigatedSearchQuery, editorViewMode, renderPending, timers)
    /\ UNCHANGED <<pc, searchVars, treeVars, filterVars, convertVars, turndownVars, pasteVars, activeNoteId, navigatedSearchQuery,
                   searchOptions, currentMatchIndex, failureVars, storageVars, mainVars, closeVars, sqliteVars>>

\* handleNavigate: to a note (with the 2 s highlight timer that sets MainApp
\* state again), or to a project, which opens its first note or none
handleNavigate(type, id, q) ==
    /\ type = "note" => id # NoNote
    /\ activeNoteId' = id
    /\ navigatedSearchQuery' = q
    /\ WorkspaceEffect(q, editorViewMode, renderPending \/ type = "note", Superseded(timers))
    /\ UNCHANGED <<pc, searchVars, treeVars, filterVars, convertVars, turndownVars, pasteVars, notes, searchOptions, currentMatchIndex, failureVars, storageVars, mainVars, closeVars, sqliteVars>>

\* the Source / Preview buttons and the preview's double click
onViewModeChange(mode) ==
    /\ activeNoteId # NoNote
    /\ WorkspaceEffect(navigatedSearchQuery, mode, renderPending, timers)
    /\ UNCHANGED <<pc, searchVars, treeVars, filterVars, convertVars, turndownVars, pasteVars, notes, activeNoteId, navigatedSearchQuery,
                   searchOptions, currentMatchIndex, failureVars, storageVars, mainVars, closeVars, sqliteVars>>

\* MainApp renders again for a state update made earlier; the effect runs again
EffectRerun ==
    /\ renderPending
    /\ WorkspaceEffect(navigatedSearchQuery, editorViewMode, FALSE, timers)
    /\ UNCHANGED <<pc, searchVars, treeVars, filterVars, convertVars, turndownVars, pasteVars, notes, activeNoteId, navigatedSearchQuery,
                   searchOptions, currentMatchIndex, failureVars, storageVars, mainVars, closeVars, sqliteVars>>

\* the oldest pending setTimeout callback fires: scrollToMatch(0)
TimerFire ==
    /\ timers # <<>>
    /\ timers' = Tail(timers)
    /\ scrollToMatch(0)
    /\ UNCHANGED <<pc, searchVars, treeVars, filterVars, convertVars, turndownVars, pasteVars, appVars, isSearchVisible, searchQuery,
                   searchOptions, renderPending, failureVars, storageVars, mainVars, closeVars, sqliteVars>>

Next ==
    \/ \E q \in Texts(NavChars, MaxNavQueryLen) : SearchInputChange(q)
    \/ ToggleCaseSensitive
    \/ ToggleWholeWord
    \/ toggleSearch
    \/ handleNextMatch
    \/ handlePrevMatch
    \/ \E c \in Texts(NavChars, MaxNoteLen) : handleUpdateNoteContent(c)
    \/ \E type \in {"note", "project"}, id \in NoteIds \cup {NoNote},
          q \in Texts(NavChars, MaxNavQueryLen) : handleNavigate(type, id, q)
    \/ \E mode \in ViewModes : onViewModeChange(mode)
    \/ EffectRerun
    \/ TimerFire

Spec == Init /\ [][Next]_vars

----------------------------------------------------------------------------
(* App.tsx / storage: the initial load and the auto-save effects.  A stored  *)
(* item is absent, a JSON text of an array, or a text JSON.parse rejects.    *)
(* A project is its id; a note is the projectId it belongs to.               *)

MaxProjects == 1
MaxStoredNotes == 2

QUICK_NOTES_VIEW_ID == "quick_notes"
STORAGE_KEYS == {"PROJECTS", "NOTES"}
ProjectIds == {"p" \o ToString(i) : i \in 1..MaxProjects}

\* arrays of distinct project ids
ProjectArrays ==
    {a \in UNION {[1..n -> ProjectIds] : n \in 0..MaxProjects} :
        \A i, j \in 1..Len(a) : a[i] = a[j] => i = j}
NoteArrays == UNION {[1..n -> ProjectIds \cup {QUICK_NOTES_VIEW_ID}] : n \in 0..MaxStoredNotes}

Absent == [kind |-> "absent", value |-> <<>>]
Corrupt == [kind |-> "corrupt", value |-> <<>>]
\* JSON.stringify(array)
Json(a) == [kind |-> "json", value |-> a]

StoredItems(arrays) == {Absent, Corrupt} \cup {Json(a) : a \in arrays}

\* getProjects / getNotes: saved ? JSON.parse(saved) : [], and [] from the catch
getItems(item) == IF item.kind = "json" THEN item.value ELSE <<>>

\* array.filter(keep)
RECURSIVE filter(_, _)
filter(a, drop) ==
    IF a = <<>> THEN <<>>
    ELSE IF Head(a) = drop THEN filter(Tail(a), drop)
    ELSE <<Head(a)>> \o filter(Tail(a), drop)

InitStorage ==
    /\ pc = "load"
    /\ localStorage \in [PROJECTS : StoredItems(ProjectArrays), NOTES : StoredItems(NoteArrays)]
    /\ appProjects = <<>>
    /\ appNotes = <<>>
    /\ isDataLoaded = FALSE
    /\ loaded = [PROJECTS |-> <<>>, NOTES |-> <<>>]
    /\ pendingEffects = {}
    /\ SearchIdle
    /\ TreeIdle
    /\ WorkspaceIdle
    /\ FilterIdle
    /\ ConvertIdle
    /\ TurndownIdle
    /\ PasteIdle
    /\ FailureIdle
    /\ MainIdle
    /\ CloseIdle
    /\ SqliteIdle

\* the mount effect: loadData() runs up to its await, both reads are done; the
\* auto-save effects of the first commit follow
loadData ==
    /\ pc = "load"
    /\ loaded' = [PROJECTS |-> getItems(localStorage.PROJECTS), NOTES |-> getItems(localStorage.NOTES)]
    /\ pendingEffects' = STORAGE_KEYS
    /\ pc' = "loading"
    /\ UNCHANGED <<localStorage, appProjects, appNotes, isDataLoaded>>
    /\ UNCHANGED <<searchVars, treeVars, appVars, workspaceVars, filterVars, convertVars, turndownVars, pasteVars, failureVars, mainVars, closeVars, sqliteVars>>

\* after the await: setProjects, setNotes, and setIsDataLoaded(true) in finally
loadDataResolved ==
    /\ pc = "loading"
    /\ pendingEffects = {}
    /\ appProjects' = loaded.PROJECTS
    /\ appNotes' = loaded.NOTES
    /\ isDataLoaded' = TRUE
    /\ pendingEffects' = STORAGE_KEYS
    /\ pc' = "loaded"
    /\ UNCHANGED <<localStorage, loaded>>
    /\ UNCHANGED <<searchVars, treeVars, appVars, workspaceVars, filterVars, convertVars, turndownVars, pasteVars, failureVars, mainVars, closeVars, sqliteVars>>

\* the commit's effects are done: the interface takes commands once loaded
AfterEffect(rest) == IF rest = {} /\ pc = "loaded" THEN "ready" ELSE pc

\* useEffect(() => { if (isDataLoaded) storage.saveProjects(projects) })
saveProjectsEffect ==
    /\ "PROJECTS" \in pendingEffects
    /\ localStorage' = IF isDataLoaded THEN [localStorage EXCEPT !.PROJECTS = Json(appProjects)]
                       ELSE localStorage
    /\ pendingEffects' = pendingEffects \ {"PROJECTS"}
    /\ pc' = AfterEffect(pendingEffects')
    /\ UNCHANGED <<appProjects, appNotes, isDataLoaded, loaded>>
    /\ UNCHANGED <<searchVars, treeVars, appVars, workspaceVars, filterVars, convertVars, turndownVars, pasteVars, failureVars, mainVars, closeVars, sqliteVars>>

\* useEffect(() => { if (isDataLoaded) storage.saveNotes(notes) })
saveNotesEffect ==
    /\ "NOTES" \in pendingEffects
    /\ localStorage' = IF isDataLoaded THEN [localStorage EXCEPT !.NOTES = Json(appNotes)]
                       ELSE localStorage
    /\ pendingEffects' = pendingEffects \ {"NOTES"}
    /\ pc' = AfterEffect(pendingEffects')
    /\ UNCHANGED <<appProjects, appNotes, isDataLoaded, loaded>>
    /\ UNCHANGED <<searchVars, treeVars, appVars, workspaceVars, filterVars, convertVars, turndownVars, pasteVars, failureVars, mainVars, closeVars, sqliteVars>>

Ready == pc = "ready" /\ pendingEffects = {}

handleAddProject ==
    /\ Ready
    /\ \E id \in ProjectIds :
        /\ \A i \in 1..Len(appProjects) : appProjects[i] # id
        /\ appProjects' = <<id>> \o appProjects
    /\ pendingEffects' = {"PROJECTS"}
    /\ UNCHANGED <<pc, localStorage, appNotes, isDataLoaded, loaded>>
    /\ UNCHANGED <<searchVars, treeVars, appVars, workspaceVars, filterVars, convertVars, turndownVars, pasteVars, failureVars, mainVars, closeVars, sqliteVars>>

handleDeleteProject ==
    /\ Ready
    /\ \E i \in 1..Len(appProjects) :
        /\ appProjects' = filter(appProjects, appProjects[i])
        /\ appNotes' = filter(appNotes, appProjects[i])
    /\ pendingEffects' = STORAGE_KEYS
    /\ UNCHANGED <<pc, localStorage, isDataLoaded, loaded>>
    /\ UNCHANGED <<searchVars, treeVars, appVars, workspaceVars, filterVars, convertVars, turndownVars, pasteVars, failureVars, mainVars, closeVars, sqliteVars>>

handleAddNote ==
    /\ Ready
    /\ Len(appNotes) < MaxStoredNotes
    /\ \E pid \in {appProjects[i] : i \in 1..Len(appProjects)} \cup {QUICK_NOTES_VIEW_ID} :
        /\ appNotes' = Append(appNotes, pid)
        /\ pendingEffects' = IF pid # QUICK_NOTES_VIEW_ID THEN STORAGE_KEYS ELSE {"NOTES"}
    /\ UNCHANGED <<pc, localStorage, appProjects, isDataLoaded, loaded>>
    /\ UNCHANGED <<searchVars, treeVars, appVars, workspaceVars, filterVars, convertVars, turndownVars, pasteVars, failureVars, mainVars, closeVars, sqliteVars>>

handleDeleteNote ==
    /\ Ready
    /\ \E i \in 1..Len(appNotes) :
        appNotes' = SubSeq(appNotes, 1, i - 1) \o SubSeq(appNotes, i + 1, Len(appNotes))
    /\ pendingEffects' = {"NOTES"}
    /\ UNCHANGED <<pc, localStorage, appProjects, isDataLoaded, loaded>>
    /\ UNCHANGED <<searchVars, treeVars, appVars, workspaceVars, filterVars, convertVars, turndownVars, pasteVars, failureVars, mainVars, closeVars, sqliteVars>>

\* storage.clearAllData(), then setProjects([]) and setNotes([])
handleClearData ==
    /\ Ready
    /\ localStorage' = [PROJECTS |-> Absent, NOTES |-> Absent]
    /\ appProjects' = <<>>
    /\ appNotes' = <<>>
    /\ pendingEffects' = STORAGE_KEYS
    /\ UNCHANGED <<pc, isDataLoaded, loaded>>
    /\ UNCHANGED <<searchVars, treeVars, appVars, workspaceVars, filterVars, convertVars, turndownVars, pasteVars, failureVars, mainVars, closeVars, sqliteVars>>

NextStorage ==
    \/ loadData
    \/ loadDataResolved
    \/ saveProjectsEffect
    \/ saveNotesEffect
    \/ handleAddProject
    \/ handleDeleteProject
    \/ handleAddNote
    \/ handleDeleteNote
    \/ handleClearData

SpecStorage == InitStorage /\ [][NextStorage]_vars

----------------------------------------------------------------------------
(* MainApp: the commands on projects and notes, the active selection, the    *)
(* persisted user habits and a restart of the application.  A project is its *)
(* id; a note is [id, projectId, createdAt]; null is "null".                 *)

MaxCreated == 3

MainProjectIds == {"p1"}
UNCATEGORIZED == "uncategorized"
NoProject == "null"

DEFAULT_USER_HABITS == [lastActiveProjectId |-> QUICK_NOTES_VIEW_ID, lastActiveNoteId |-> NoNote]

NoteIdsOf(ns) == {n.id : n \in ns}

\* notes.filter(n => n.projectId === id).sort((a, b) => b.createdAt - a.createdAt)[0]
FirstNoteOf(ns, id) ==
    LET projectNotes == {n \in ns : n.projectId = id}
    IN IF projectNotes = {} THEN NoNote
       ELSE (CHOOSE n \in projectNotes : \A m \in projectNotes : m.createdAt <= n.createdAt).id

\* the habits persistence effect: storage.saveUserHabits(userHabits) once loaded
persistHabits(habits, rest) ==
    IF isDataLoaded THEN [rest EXCEPT !.user_habits = habits] ELSE rest

InitMain ==
    /\ pc = "load"
    /\ SearchIdle
    /\ TreeIdle
    /\ WorkspaceIdle
    /\ FilterIdle
    /\ ConvertIdle
    /\ TurndownIdle
    /\ PasteIdle
    /\ FailureIdle
    /\ StorageIdle
    /\ mainProjects = {}
    /\ mainNotes = {}
    /\ activeProjectId = NoProject
    /\ userHabits = DEFAULT_USER_HABITS
    /\ database = [projects |-> {}, notes |-> {}, user_habits |-> DEFAULT_USER_HABITS]
    /\ created = 0
    /\ CloseIdle
    /\ SqliteIdle

\* what no MainApp command touches
MainFrame ==
    UNCHANGED <<searchVars, treeVars, workspaceVars, filterVars, convertVars, turndownVars,
                pasteVars, failureVars, notes, editorViewMode, localStorage, appProjects,
                appNotes, loaded, pendingEffects, closeVars, sqliteVars>>

\* loadData: the four reads, the state set from them, the selection set from
\* the habits, setIsDataLoaded(true)
loadMainData ==
    /\ pc = "load"
    /\ mainProjects' = database.projects
    /\ mainNotes' = database.notes
    /\ userHabits' = database.user_habits
    /\ activeProjectId' = IF database.user_habits.lastActiveProjectId = NoProject
                          THEN QUICK_NOTES_VIEW_ID
                          ELSE database.user_habits.lastActiveProjectId
    /\ activeNoteId' = database.user_habits.lastActiveNoteId
    /\ isDataLoaded' = TRUE
    /\ pc' = "ready"
    /\ UNCHANGED <<database, created, navigatedSearchQuery>>
    /\ MainFrame

mainAddProject ==
    /\ pc = "ready"
    /\ \E id \in MainProjectIds \ mainProjects :
        /\ mainProjects' = mainProjects \cup {id}
        /\ activeProjectId' = id
        /\ database' = [database EXCEPT !.projects = @ \cup {id}]
    /\ activeNoteId' = NoNote
    /\ UNCHANGED <<pc, mainNotes, userHabits, created, isDataLoaded, navigatedSearchQuery>>
    /\ MainFrame

mainDeleteProject ==
    /\ pc = "ready"
    /\ \E projectId \in mainProjects :
        /\ mainProjects' = mainProjects \ {projectId}
        /\ mainNotes' = {n \in mainNotes : n.projectId # projectId}
        /\ LET deleted == [database EXCEPT !.projects = @ \ {projectId},
                                           !.notes = {n \in @ : n.projectId # projectId}]
           IN IF activeProjectId = projectId
              THEN /\ activeProjectId' = QUICK_NOTES_VIEW_ID
                   /\ activeNoteId' = NoNote
                   /\ userHabits' = [lastActiveProjectId |-> QUICK_NOTES_VIEW_ID,
                                     lastActiveNoteId |-> NoNote]
                   /\ database' = persistHabits(userHabits', deleted)
              ELSE /\ UNCHANGED <<activeProjectId, activeNoteId, userHabits>>
                   /\ database' = deleted
    /\ UNCHANGED <<pc, created, isDataLoaded, navigatedSearchQuery>>
    /\ MainFrame

mainAddNote ==
    /\ pc = "ready"
    /\ created < MaxCreated
    /\ \E id \in NoteIds \ NoteIdsOf(mainNotes) :
       \E pid \in mainProjects \cup {QUICK_NOTES_VIEW_ID}
                  \cup {IF activeProjectId = NoProject THEN UNCATEGORIZED ELSE activeProjectId} :
        LET newNote == [id |-> id, projectId |-> pid, createdAt |-> created + 1]
        IN /\ mainNotes' = mainNotes \cup {newNote}
           /\ activeProjectId' = pid
           /\ activeNoteId' = id
           /\ userHabits' = [lastActiveProjectId |-> pid, lastActiveNoteId |-> id]
           /\ database' = persistHabits(userHabits',
                              [database EXCEPT !.notes = {n \in @ : n.id # id} \cup {newNote}])
    /\ created' = created + 1
    /\ UNCHANGED <<pc, mainProjects, isDataLoaded, navigatedSearchQuery>>
    /\ MainFrame

mainDeleteNote ==
    /\ pc = "ready"
    /\ \E note \in mainNotes :
        /\ mainNotes' = mainNotes \ {note}
        /\ LET deleted == [database EXCEPT !.notes = {n \in @ : n.id # note.id}]
           IN IF activeNoteId = note.id
              THEN /\ activeNoteId' = NoNote
                   /\ userHabits' = [userHabits EXCEPT !.lastActiveNoteId = NoNote]
                   /\ database' = persistHabits(userHabits', deleted)
              ELSE /\ UNCHANGED <<activeNoteId, userHabits>>
                   /\ database' = deleted
    /\ UNCHANGED <<pc, mainProjects, activeProjectId, created, isDataLoaded, navigatedSearchQuery>>
    /\ MainFrame

handleMoveNote ==
    /\ pc = "ready"
    /\ \E note \in mainNotes :
       \E targetProjectId \in (mainProjects \cup {QUICK_NOTES_VIEW_ID}) \ {note.projectId} :
        LET updatedNote == [note EXCEPT !.projectId = targetProjectId]
            saved == [database EXCEPT !.notes = {n \in @ : n.id # note.id} \cup {updatedNote}]
        IN /\ mainNotes' = (mainNotes \ {note}) \cup {updatedNote}
           /\ IF activeNoteId = note.id
              THEN /\ userHabits' = [userHabits EXCEPT !.lastActiveProjectId = targetProjectId]
                   /\ database' = persistHabits(userHabits', saved)
              ELSE /\ UNCHANGED userHabits
                   /\ database' = saved
    /\ UNCHANGED <<pc, mainProjects, activeProjectId, activeNoteId, created, isDataLoaded,
                   navigatedSearchQuery>>
    /\ MainFrame

\* handleNavigate('project', id): the first note of the project is opened
mainNavigateProject ==
    /\ pc = "ready"
    /\ \E id \in mainProjects \cup {QUICK_NOTES_VIEW_ID} :
        /\ activeProjectId' = id
        /\ activeNoteId' = FirstNoteOf(mainNotes, id)
        /\ userHabits' = [lastActiveProjectId |-> id, lastActiveNoteId |-> activeNoteId']
    /\ \E q \in Texts(NavChars, MaxNavQueryLen) : navigatedSearchQuery' = q
    /\ database' = persistHabits(userHabits', database)
    /\ UNCHANGED <<pc, mainProjects, mainNotes, created, isDataLoaded>>
    /\ MainFrame

\* handleNavigate('note', id): nothing happens when the note is not found
mainNavigateNote ==
    /\ pc = "ready"
    /\ \E note \in mainNotes :
        /\ activeProjectId' = IF note.projectId = UNCATEGORIZED THEN NoProject ELSE note.projectId
        /\ activeNoteId' = note.id
        /\ userHabits' = [lastActiveProjectId |-> activeProjectId', lastActiveNoteId |-> note.id]
    /\ \E q \in Texts(NavChars, MaxNavQueryLen) : navigatedSearchQuery' = q
    /\ database' = persistHabits(userHabits', database)
    /\ UNCHANGED <<pc, mainProjects, mainNotes, created, isDataLoaded>>
    /\ MainFrame

\* handleClearData confirmed: storage.clearAllData() deletes projects and notes
mainClearData ==
    /\ pc = "ready"
    /\ database' = [database EXCEPT !.projects = {}, !.notes = {}]
    /\ mainProjects' = {}
    /\ mainNotes' = {}
    /\ activeProjectId' = QUICK_NOTES_VIEW_ID
    /\ activeNoteId' = NoNote
    /\ UNCHANGED <<pc, userHabits, created, isDataLoaded, navigatedSearchQuery>>
    /\ MainFrame

\* the window is closed and the application started again: the state is the
\* initial state of MainApp, the database is what was stored
Restart ==
    /\ pc = "ready"
    /\ pc' = "load"
    /\ mainProjects' = {}
    /\ mainNotes' = {}
    /\ activeProjectId' = NoProject
    /\ activeNoteId' = NoNote
    /\ userHabits' = DEFAULT_USER_HABITS
    /\ isDataLoaded' = FALSE
    /\ navigatedSearchQuery' = <<>>
    /\ UNCHANGED <<database, created>>
    /\ MainFrame

NextMain ==
    \/ loadMainData
    \/ mainAddProject
    \/ mainDeleteProject
    \/ mainAddNote
    \/ mainDeleteNote
    \/ handleMoveNote
    \/ mainNavigateProject
    \/ mainNavigateNote
    \/ mainClearData
    \/ Restart

SpecMain == InitMain /\ [][NextMain]_vars

----------------------------------------------------------------------------
(* MainApp: the close handler.  The effect with dependency [settings] makes  *)
(* a listener with win.onCloseRequested, which resolves to unlisten later;   *)
(* its cleanup calls unlisten if it has it.  onCloseRequested destroys the   *)
(* window after a handler that did not call preventDefault; win.close()      *)
(* emits the close-requested event again.                                    *)

MaxListeners == 3

\* a listener of the effect run with settings configured or not
NewListener(configured) ==
    [configured |-> configured, status |-> "registering", isClosing |-> FALSE, phase |-> "idle"]

\* the listeners that receive events
Active(ls) == {i \in 1..Len(ls) : ls[i].status \in {"listening", "leaked"}}

\* the effect's cleanup: if (unlisten && typeof unlisten === 'function') unlisten()
Cleanup(ls) ==
    [i \in 1..Len(ls) |->
        IF i = Len(ls) /\ ls[i].status = "listening" THEN [ls[i] EXCEPT !.status = "removed"]
        ELSE IF i = Len(ls) /\ ls[i].status = "registering" THEN [ls[i] EXCEPT !.status = "abandoned"]
        ELSE ls[i]]

\* the handler up to its first await: TRUE when it called event.preventDefault()
Prevents(l) == ~l.isClosing /\ l.configured

InitClose ==
    /\ pc = "window"
    /\ SearchIdle
    /\ TreeIdle
    /\ WorkspaceIdle
    /\ FilterIdle
    /\ ConvertIdle
    /\ TurndownIdle
    /\ PasteIdle
    /\ FailureIdle
    /\ StorageIdle
    /\ MainIdle
    /\ settingsConfigured = FALSE
    /\ listeners = <<NewListener(FALSE)>>
    /\ window = "open"
    /\ closeEvents = 0
    /\ userClosed = FALSE
    /\ backups = [started |-> 0, finished |-> 0]
    /\ SqliteIdle

CloseFrame ==
    UNCHANGED <<pc, searchVars, treeVars, appVars, workspaceVars, filterVars, convertVars,
                turndownVars, pasteVars, failureVars, storageVars, mainVars, sqliteVars>>

\* win.onCloseRequested resolves: unlisten is assigned; a cleanup that ran
\* before found it undefined, and the listener stays for good
Registered ==
    /\ window = "open"
    /\ \E i \in 1..Len(listeners) :
        /\ listeners[i].status \in {"registering", "abandoned"}
        /\ listeners' = [listeners EXCEPT ![i].status =
                            IF listeners[i].status = "registering" THEN "listening" ELSE "leaked"]
    /\ UNCHANGED <<settingsConfigured, window, closeEvents, userClosed, backups>>
    /\ CloseFrame

\* setSettings: the cleanup of the previous effect, then the effect again
SettingsChange ==
    /\ window = "open"
    /\ ~userClosed
    /\ Len(listeners) < MaxListeners
    /\ \E configured \in BOOLEAN :
        /\ settingsConfigured' = configured
        /\ listeners' = Append(Cleanup(listeners), NewListener(configured))
    /\ UNCHANGED <<window, closeEvents, userClosed, backups>>
    /\ CloseFrame

\* the user asks to close the window, the listener of the last effect being
\* in place
UserClose ==
    /\ window = "open"
    /\ ~userClosed
    /\ listeners[Len(listeners)].status = "listening"
    /\ userClosed' = TRUE
    /\ closeEvents' = closeEvents + 1
    /\ UNCHANGED <<settingsConfigured, listeners, window, backups>>
    /\ CloseFrame

\* a close-requested event reaches every listener: a handler that returns at
\* once leaves the default, and the window is destroyed; the others set
\* isClosing, prevent the default and call storage.triggerBackup()
Dispatch ==
    /\ window = "open"
    /\ closeEvents > 0
    /\ closeEvents' = closeEvents - 1
    /\ listeners' = [i \in 1..Len(listeners) |->
                        IF i \in Active(listeners) /\ Prevents(listeners[i])
                        THEN [listeners[i] EXCEPT !.isClosing = TRUE, !.phase = "backup"]
                        ELSE listeners[i]]
    /\ backups' = [backups EXCEPT !.started =
                      @ + Cardinality({i \in Active(listeners) : Prevents(listeners[i])})]
    /\ window' = IF Active(listeners) # {} /\ \A i \in Active(listeners) : Prevents(listeners[i])
                 THEN "open" ELSE "closed"
    /\ UNCHANGED <<settingsConfigured, userClosed>>
    /\ CloseFrame

\* triggerBackup returns, having copied the database or logged its failure;
\* the handler goes on to await win.close()
BackupDone ==
    /\ window = "open"
    /\ \E i \in 1..Len(listeners) :
        /\ listeners[i].phase = "backup"
        /\ listeners' = [listeners EXCEPT ![i].phase = "closing"]
    /\ backups' = [backups EXCEPT !.finished = @ + 1]
    /\ closeEvents' = closeEvents + 1
    /\ UNCHANGED <<settingsConfigured, window, userClosed>>
    /\ CloseFrame

NextClose ==
    \/ Registered
    \/ SettingsChange
    \/ UserClose
    \/ Dispatch
    \/ BackupDone

SpecClose == InitClose /\ [][NextClose]_vars

----------------------------------------------------------------------------
(* storage.ts: SqliteStorageService.init and the data operations that call   *)
(* it, called concurrently.  A call is [op, pc]; a data operation touches    *)
(* the database when it comes to this.db!.select or this.db!.execute.        *)

MaxCallers == 2

\* projects, notes, settings, user_habits
TABLES == 4

Operations == {"init", "getProjects", "saveNote"}

\* init() as seen by a call made now: what the caller does next
\* if (this.db) return; if (this.initPromise) return this.initPromise; ...
AfterInitCall(op) ==
    IF db # "null" THEN (IF op = "init" THEN "done" ELSE "touch")
    ELSE "waiting"

InitSqlite ==
    /\ pc = "storage"
    /\ SearchIdle
    /\ TreeIdle
    /\ WorkspaceIdle
    /\ FilterIdle
    /\ ConvertIdle
    /\ TurndownIdle
    /\ PasteIdle
    /\ FailureIdle
    /\ StorageIdle
    /\ MainIdle
    /\ CloseIdle
    /\ db = "null"
    /\ initPromise = "null"
    /\ initTask = [pc |-> "none", tables |-> 0]
    /\ loads = 0
    /\ callers = <<>>

SqliteFrame ==
    UNCHANGED <<pc, searchVars, treeVars, appVars, workspaceVars, filterVars, convertVars,
                turndownVars, pasteVars, failureVars, storageVars, mainVars, closeVars>>

\* a call of init() or of a data operation, up to its first await: the data
\* operations start with if (!this.db) await this.init()
Call ==
    /\ Len(callers) < MaxCallers
    /\ \E op \in Operations :
        callers' = Append(callers, [op |-> op, pc |-> AfterInitCall(op)])
    /\ IF db = "null" /\ initPromise = "null"
       THEN /\ initPromise' = "pending"
            /\ initTask' = [pc |-> "loading", tables |-> 0]
            /\ loads' = loads + 1
       ELSE UNCHANGED <<initPromise, initTask, loads>>
    /\ UNCHANGED db
    /\ SqliteFrame

\* Database.load resolves and this.db is assigned, or it fails or times out
\* and the promise of init is rejected
DatabaseLoaded ==
    /\ initTask.pc = "loading"
    /\ \E ok \in BOOLEAN :
        IF ok THEN /\ db' = "open"
                   /\ initTask' = [initTask EXCEPT !.pc = "tables"]
                   /\ UNCHANGED initPromise
        ELSE /\ initTask' = [initTask EXCEPT !.pc = "failed"]
             /\ initPromise' = "rejected"
             /\ UNCHANGED db
    /\ UNCHANGED <<loads, callers>>
    /\ SqliteFrame

\* one CREATE TABLE IF NOT EXISTS
CreateTable ==
    /\ initTask.pc = "tables"
    /\ initTask.tables < TABLES
    /\ initTask' = [initTask EXCEPT !.tables = @ + 1]
    /\ UNCHANGED <<db, initPromise, loads, callers>>
    /\ SqliteFrame

\* mkdir, this.settings = await this.getSettings(), and the promise resolves
InitDone ==
    /\ initTask.pc = "tables"
    /\ initTask.tables = TABLES
    /\ initTask' = [initTask EXCEPT !.pc = "done"]
    /\ initPromise' = "resolved"
    /\ UNCHANGED <<db, loads, callers>>
    /\ SqliteFrame

\* a caller waiting for the promise of init goes on
Resume ==
    /\ initPromise \in {"resolved", "rejected"}
    /\ \E c \in 1..Len(callers) :
        /\ callers[c].pc = "waiting"
        /\ callers' = [callers EXCEPT ![c].pc =
                          IF initPromise = "rejected" THEN "failed"
                          ELSE IF callers[c].op = "init" THEN "done" ELSE "touch"]
    /\ UNCHANGED <<db, initPromise, initTask, loads>>
    /\ SqliteFrame

\* this.db!.select(...) or this.db!.execute(...) of a data operation
OpDone ==
    /\ \E c \in 1..Len(callers) :
        /\ callers[c].pc = "touch"
        /\ callers' = [callers EXCEPT ![c].pc = "done"]
    /\ UNCHANGED <<db, initPromise, initTask, loads>>
    /\ SqliteFrame

NextSqlite ==
    \/ Call
    \/ DatabaseLoaded
    \/ CreateTable
    \/ InitDone
    \/ Resume
    \/ OpDone

SpecSqlite == InitSqlite /\ [][NextSqlite]_vars

----------------------------------------------------------------------------
(* Properties of getHighlightParts and searchMatchesCount (SpecSearch) *)

SameText(s, t, ignoreCase) ==
    /\ Len(s) = Len(t)
    /\ \A i \in 1..Len(s) : CharEq(s[i], t[i], ignoreCase)

OccursAt(c, q, i, ignoreCase) ==
    /\ i + Len(q) - 1 <= Len(c)
    /\ SameText(SubSeq(c, i, i + Len(q) - 1), q, ignoreCase)

\* bounded on both sides by a non-word character or by the start/end of the text
BoundedAt(c, i, n) == ~IsWordAt(c, i - 1) /\ ~IsWordAt(c, i + n)

\* the leftmost non-overlapping occurrences of q as a literal substring of c
\* (only those bounded on both sides when wholeWord), from position i on
RECURSIVE Occurrences(_, _, _, _, _)
Occurrences(c, q, i, ignoreCase, wholeWord) ==
    IF q = <<>> \/ i > Len(c) THEN <<>>
    ELSE IF OccursAt(c, q, i, ignoreCase) /\ (wholeWord => BoundedAt(c, i, Len(q)))
    THEN <<[index |-> i, end |-> i + Len(q)]>>
         \o Occurrences(c, q, i + Len(q), ignoreCase, wholeWord)
    ELSE Occurrences(c, q, i + 1, ignoreCase, wholeWord)

MatchPartCount == Cardinality({i \in 1..Len(parts) : parts[i].isMatch})

\* C1: the texts of the segments getHighlightParts returns, concatenated in
\* order, are the original content, for every content, query and options
C1_RoundTrip ==
    pc \in {"highlighted", "done"} => Concat(parts) = content

C1_Witness ==
    /\ pc = "highlighted"
    /\ Len(parts) >= 3
    /\ parts[2].isMatch
    /\ options.wholeWord

\* C2: the navigator's match count equals the number of isMatch segments of
\* getHighlightParts for the same content, query and options
C2_CountConsistency ==
    pc = "done" => Len(matches) = MatchPartCount

\* C6: without wholeWord the isMatch segments, and the matches the navigator
\* counts, are exactly the leftmost non-overlapping literal occurrences of the
\* query, compared case-insensitively unless caseSensitive
C6_LiteralMatches ==
    (pc = "done" /\ ~options.wholeWord) =>
        /\ MatchSpans(parts, 0) = Occurrences(content, query, 1, ~options.caseSensitive, FALSE)
        /\ matches = Occurrences(content, query, 1, ~options.caseSensitive, FALSE)

C6_Witness ==
    /\ pc = "done"
    /\ ~options.wholeWord
    /\ query = <<"a", ".">>
    /\ content = <<"A", ".", "a">>
    /\ Len(matches) = 1

\* C7: with wholeWord an occurrence of the query is a match exactly when it is
\* bounded on both sides by a non-word character or the start/end of the text,
\* for every query
C7_WholeWordBounded ==
    (pc = "done" /\ options.wholeWord) =>
        /\ matches = Occurrences(content, query, 1, ~options.caseSensitive, TRUE)
        /\ MatchSpans(parts, 0) = Occurrences(content, query, 1, ~options.caseSensitive, TRUE)

\* C8 as stated: for the empty query and every content, the empty one included,
\* the count is 0 and there is exactly one segment, non-matching, holding the
\* whole content
C8_EmptyQueryOneSegment ==
    (pc = "done" /\ query = <<>>) =>
        /\ Len(matches) = 0
        /\ parts = <<[text |-> content, isMatch |-> FALSE]>>

\* C8 amended: for the empty query the count is 0 and no segment matches; a
\* non-empty content gives exactly one non-matching segment holding the whole
\* content, the empty content gives no segment at all
C8_EmptyQueryNoMatch ==
    (pc = "done" /\ query = <<>>) =>
        /\ Len(matches) = 0
        /\ parts = IF content = <<>> THEN <<>>
                   ELSE <<[text |-> content, isMatch |-> FALSE]>>

C8_Witness ==
    /\ pc = "done"
    /\ query = <<>>
    /\ Len(content) >= 2
    /\ Len(parts) = 1

----------------------------------------------------------------------------
(* Properties of the match ordinals (SpecTree) *)

\* the offsets at which one leaf of the tree ends and the next begins
RECURSIVE LeafBoundaries(_, _)
LeafBoundaries(children, offset) ==
    IF Len(children) <= 1 THEN {}
    ELSE {offset + Len(Head(children).text)}
         \cup LeafBoundaries(Tail(children), offset + Len(Head(children).text))

\* no match of the pattern in the raw text extends across a leaf boundary
NoStraddle ==
    \A b \in LeafBoundaries(tree, 0) : \A i \in 1..Len(matches) :
        ~(matches[i].index <= b /\ b + 1 < matches[i].end)

\* no leaf boundary separates two word characters
NoWordSplit ==
    \A b \in LeafBoundaries(tree, 0) : ~(IsWordAt(content, b) /\ IsWordAt(content, b + 1))

\* C3 as stated: whenever the leaf texts concatenated are the raw text, the
\* N-th mark of the preview is the same occurrence as match-N of the raw view
C3_SameOrdinals ==
    pc = "done" => previewMarks = rawMarks

\* C3 amended: the N-th mark of the preview is the same occurrence as match-N
\* of the raw view when no match of the raw text extends across a leaf
\* boundary and, with wholeWord, no leaf boundary separates two word characters
C3_SameOrdinalsWithinLeaves ==
    (pc = "done" /\ NoStraddle /\ (options.wholeWord => NoWordSplit)) =>
        previewMarks = rawMarks

C3_Witness ==
    /\ pc = "done"
    /\ Len(tree) = 2
    /\ tree[2].tag = "a"
    /\ NoStraddle
    /\ Len(rawMarks) = 2
    /\ rawMarks[2].index > Len(tree[1].text)
    /\ previewMarks = rawMarks

----------------------------------------------------------------------------
(* Properties of the match navigator (Spec) *)

\* C4: every change to the query text, to a search option or to the active
\* document resets currentMatchIndex to 0 (the total is recomputed at every
\* render), from every reachable state
C4_ChangeResetsIndex ==
    [][(\/ searchQuery' # searchQuery
        \/ searchOptions' # searchOptions
        \/ activeNoteId' # activeNoteId) => currentMatchIndex' = 0]_vars

\* total consecutive applications of nextIndex
RECURSIVE NextTimes(_, _, _)
NextTimes(i, total, n) == IF n = 0 THEN i ELSE NextTimes(nextIndex(i, total), total, n - 1)

RECURSIVE PrevTimes(_, _, _)
PrevTimes(i, total, n) == IF n = 0 THEN i ELSE PrevTimes(prevIndex(i, total), total, n - 1)

\* C5: with total > 0, next() sets the index to (index + 1) mod total and
\* prev() to (index - 1 + total) mod total, total consecutive next() (or
\* prev()) calls return to the starting index and prev() undoes next(); with
\* total = 0 both leave the index unchanged
C5_CyclicNavigation ==
    [][/\ handleNextMatch =>
            IF Total = 0 THEN currentMatchIndex' = currentMatchIndex
            ELSE /\ currentMatchIndex' = (currentMatchIndex + 1) % Total
                 /\ prevIndex(currentMatchIndex', Total) = currentMatchIndex
                 /\ NextTimes(currentMatchIndex, Total, Total) = currentMatchIndex
       /\ handlePrevMatch =>
            IF Total = 0 THEN currentMatchIndex' = currentMatchIndex
            ELSE /\ currentMatchIndex' = (currentMatchIndex - 1 + Total) % Total
                 /\ PrevTimes(currentMatchIndex, Total, Total) = currentMatchIndex]_vars

----------------------------------------------------------------------------
(* Properties of the list filters (SpecFilter) *)

Ids(items) == {items[i].id : i \in 1..Len(items)}

\* C9: whether a filter reports an item depends only on that item's text and
\* the query: an item of a list is reported exactly when the same filter
\* reports it from the list holding that item alone
C9_FilterOrderIndependent ==
    pc = "done" =>
        \A i \in 1..Len(filterNotes) :
            /\ filterNotes[i].id \in Ids(filteredNotes)
                   <=> quickNotesFilter(<<filterNotes[i]>>, query, options) # <<>>
            /\ filterNotes[i].id \in Ids(searchResults.notes)
                   <=> sidebarSearch(<<>>, <<filterNotes[i]>>, query, options).notes # <<>>

----------------------------------------------------------------------------
(* Properties of the conversion rules (SpecConvert) *)

\* C10: the rules are tried in the order written and the first match wins: a
\* pre element (with text) is converted by the pre rule, to a fenced block
\* labelled with the language of its own or its code child's class, also when
\* it carries the code-editor signals of the editor-paste rule
C10_PreRuleFirst ==
    (pc = "done" /\ ~isBlank(node) /\ node.nodeName = "PRE") =>
        markdown = RuleReplacement("pre", node)

----------------------------------------------------------------------------
(* Properties of the whole conversion (SpecTurndown, SpecPostprocess) *)

\* the text a p element shows
ParagraphText(n) == Trim(n.text)

\* C12: a p element with non-empty trimmed content is emitted with one blank
\* line before and after it, so the texts of two consecutive non-empty
\* paragraphs are separated by exactly one blank line in the converted
\* Markdown; a p element whose trimmed content is empty emits nothing
C12_ParagraphsBlankLine ==
    (pc = "done" /\ dom[1].nodeName = "P" /\ dom[2].nodeName = "P") =>
        output = IF ParagraphText(dom[1]) = <<>> THEN ParagraphText(dom[2])
                 ELSE IF ParagraphText(dom[2]) = <<>> THEN ParagraphText(dom[1])
                 ELSE (ParagraphText(dom[1]) \o <<"\n", "\n">>) \o ParagraphText(dom[2])

\* the lines of a text that hold more than white space, without their
\* trailing white space
RECURSIVE NonBlank(_)
NonBlank(lines) ==
    IF lines = <<>> THEN <<>>
    ELSE IF Trim(Head(lines)) = <<>> THEN NonBlank(Tail(lines))
    ELSE <<TrimEnd(Head(lines))>> \o NonBlank(Tail(lines))

\* for every line that holds more than white space but the last, whether a
\* blank line follows it
RECURSIVE BlankAfter(_)
BlankAfter(lines) ==
    IF Len(lines) <= 1 THEN <<>>
    ELSE IF Trim(Head(lines)) = <<>> THEN BlankAfter(Tail(lines))
    ELSE IF NonBlank(Tail(lines)) = <<>> THEN <<>>
    ELSE <<Trim(lines[2]) = <<>> >> \o BlankAfter(Tail(lines))

HasTripleNewline(t) ==
    \E i \in 1..Len(t) - 2 : t[i] = "\n" /\ t[i + 1] = "\n" /\ t[i + 2] = "\n"

\* C13: in the converter's final output no line ends with white space, there
\* is no run of three or more newlines (every run of blank or white-space-only
\* lines is exactly one blank line), the result has no leading or trailing
\* white space, and the lines keep their text and, but for the first, their
\* leading white space
C13_PostprocessedOutput ==
    pc = "done" =>
        LET outLines == splitLines(output, <<>>)
            inLines == splitLines(md, <<>>)
        IN /\ \A i \in 1..Len(outLines) :
                  outLines[i] = <<>> \/ outLines[i][Len(outLines[i])] \notin Whitespace
           /\ ~HasTripleNewline(output)
           /\ output = Trim(output)
           /\ Len(NonBlank(outLines)) = Len(NonBlank(inLines))
           /\ \A i \in 1..Len(NonBlank(outLines)) :
                  NonBlank(outLines)[i] = IF i = 1 THEN TrimStart(NonBlank(inLines)[1])
                                          ELSE NonBlank(inLines)[i]
           /\ BlankAfter(outLines) = BlankAfter(inLines)
           /\ Len(outLines) = Len(NonBlank(outLines))
                  + Cardinality({i \in 1..Len(BlankAfter(outLines)) : BlankAfter(outLines)[i]})
                  + (IF output = <<>> THEN 1 ELSE 0)

C13_Witness ==
    /\ pc = "done"
    /\ md = <<"x", "\n", " ", "\n", "\n", "x">>
    /\ output = <<"x", "\n", "\n", "x">>

HasNbsp(t) == \E i \in 1..Len(t) : t[i] = Nbsp

\* C14: the non-breaking spaces of the HTML, the literal character and every
\* character reference to it, are replaced by ordinary spaces before any rule
\* runs: no node the rules see holds a non-breaking space and the output holds
\* none
C14_NoNbsp ==
    pc = "done" =>
        /\ \A i \in 1..Len(dom) : ~HasNbsp(dom[i].text)
        /\ ~HasNbsp(output)

----------------------------------------------------------------------------
(* Properties of the clipboard handlers (SpecPaste, SpecCopy) *)

\* the clipboard HTML is a div or span around a word, without a class or style
PlainWrapper ==
    /\ clipboard.html # <<>>
    /\ ParseHtml(clipboard.html).nodeName \in {"DIV", "SPAN"}
    /\ ParseHtml(clipboard.html).class = <<>>
    /\ ParseHtml(clipboard.html).style = <<>>

\* C15: clipboard HTML that is only a plain wrapper (a div or span around
\* text, no block/structural/emphasis tag and no code-editor signal), whatever
\* the text says, is not converted: the handler does not prevent the default
\* paste and the note gets the plain-text payload
C15_PlainWrapperNotConverted ==
    (pc = "pasted" /\ PlainWrapper) =>
        /\ ~defaultPrevented
        /\ noteContent = Splice(textarea.value, textarea.selectionStart,
                                textarea.selectionEnd, clipboard.text)

\* C16 as stated: on copy from the rendered preview the plain-text slot gets
\* the converter's Markdown for the cloned selection and the text/html slot
\* the serialized cloned selection, unmodified
C16_HtmlSlotUnmodified ==
    (pc \in {"copied", "copiedText"} /\ selection # NoNode) =>
        /\ clipboard.text = turndown(Serialize(selection))
        /\ clipboard.html = Serialize(selection)

SansSerifDivOpen ==
    <<"<", "d", "i", "v", " ", "s", "t", "y", "l", "e", "=", "\"", "f", "o", "n", "t", "-", "f", "a", "m", "i", "l", "y", ":", " ", "s", "a", "n", "s", "-", "s", "e", "r", "i", "f", ";", "\"", ">">>

DivClose == <<"<", "/", "d", "i", "v", ">">>

\* C16 amended: the plain-text slot gets the converter's Markdown for the
\* cloned selection; the text/html slot gets the serialized cloned selection
\* inside one div with the style font-family: sans-serif, and nothing when the
\* context menu's clipboard write failed and only the text was written
C16_HtmlSlotWrapped ==
    (pc \in {"copied", "copiedText"} /\ selection # NoNode) =>
        /\ clipboard.text = turndown(Serialize(selection))
        /\ clipboard.html = IF pc = "copied"
                            THEN (SansSerifDivOpen \o Serialize(selection)) \o DivClose
                            ELSE <<>>

C16_Witness ==
    /\ pc = "copied"
    /\ defaultPrevented
    /\ selection.nodeName = "P"
    /\ selection.text = <<"e", "m", "_">>
    /\ clipboard.text = <<"e", "m", "\\", "_">>
    /\ Len(clipboard.html) > Len(Serialize(selection))

----------------------------------------------------------------------------
(* Properties of the preview tree (SpecTree) *)

\* the marks of every leaf segmented on its own, in document order
RECURSIVE LeafMarks(_, _)
LeafMarks(children, offset) ==
    IF children = <<>> THEN <<>>
    ELSE LET own == HighlightBackdrop(Head(children).text, query, options)
         IN [i \in 1..Len(own) |-> [index |-> own[i].index + offset, end |-> own[i].end + offset]]
            \o LeafMarks(Tail(children), offset + Len(Head(children).text))

\* C17: in the preview tree matching is confined to a single text leaf: every
\* leaf is segmented on its own, child by child, the tree itself is kept, and
\* an occurrence of the query split across two sibling leaves is not
\* highlighted and gets no ordinal
C17_MatchesWithinLeaf ==
    pc = "done" =>
        /\ previewMarks = LeafMarks(tree, 0)
        /\ Concat(tree) = content
        /\ \A i \in 1..Len(previewMarks) : \A b \in LeafBoundaries(tree, 0) :
               ~(previewMarks[i].index <= b /\ b + 1 < previewMarks[i].end)

C17_Witness ==
    /\ pc = "done"
    /\ Len(tree) = 2
    /\ query = <<"a", ".">>
    /\ tree[1].text = <<"a">>
    /\ tree[2].text = <<".">>
    /\ Len(rawMarks) = 1
    /\ previewMarks = <<>>

----------------------------------------------------------------------------
(* Properties of the consumers under a failing pattern (SpecFailure) *)

\* C18: if the construction of the pattern fails, every consumer of the
\* matcher behaves as if nothing matches and no exception reaches its caller:
\* no segment is isMatch, the match count is 0 and the list filters report no
\* item
C18_FailureMatchesNothing ==
    (pc = "done" /\ regExpThrows /\ query # <<>>) =>
        /\ thrown = {}
        /\ \A i \in 1..Len(parts) : ~parts[i].isMatch
        /\ Len(matches) = 0
        /\ filteredNotes = <<>>
        /\ searchResults = [projects |-> <<>>, notes |-> <<>>]

----------------------------------------------------------------------------
(* Properties of the deferred scroll (Spec) *)

\* C19: a later command supersedes the earlier one with no background work
\* left over: once a query change, a document change or next()/prev() has
\* been applied, the delayed scrollToMatch(0) an earlier event scheduled does
\* not change currentMatchIndex and does not act on a view mode that is not
\* the current one
C19_NoLeftoverCallback ==
    [][(TimerFire /\ Head(timers).superseded) =>
           /\ currentMatchIndex' = currentMatchIndex
           /\ Head(timers).viewMode = editorViewMode]_vars

----------------------------------------------------------------------------
(* Properties of the storage (SpecStorage) *)

\* C20: projects and notes are written to storage only after the initial load
\* has finished, and the save that follows the load, before any command,
\* never replaces an item that was stored with the empty array, whatever the
\* load returned
C20_StoredNeverEmptied ==
    [][\A k \in STORAGE_KEYS :
          localStorage'[k] # localStorage[k] =>
              /\ isDataLoaded
              /\ ~(/\ pc = "loaded"
                   /\ localStorage[k].kind # "absent"
                   /\ localStorage'[k] = Json(<<>>))]_vars

----------------------------------------------------------------------------
(* Properties of the match index (Spec) *)

\* C21: in every reachable state of the in-file search the current match index
\* is within range: it is 0 when the total is 0, and at least 0 and below the
\* total otherwise
C21_IndexInRange ==
    IF Total = 0 THEN currentMatchIndex = 0
    ELSE 0 <= currentMatchIndex /\ currentMatchIndex < Total

----------------------------------------------------------------------------
(* Properties of the navigator's total in the preview (SpecTree) *)

\* C22: in preview mode the total used by next()/prev(), computed from the raw
\* note content, equals the number of mark elements rendered in the preview,
\* so every index below the total designates an existing mark
C22_TotalIsMarkCount ==
    pc = "done" =>
        /\ searchMatchesCount(content, query, options) = Len(previewMarks)
        /\ \A i \in 0..(searchMatchesCount(content, query, options) - 1) :
               i + 1 \in DOMAIN previewMarks

----------------------------------------------------------------------------
(* Properties of the converting paste (SpecPaste) *)

\* C23: a converting paste replaces exactly the selected range [start, end):
\* the new content is the old text before start, then the Markdown, then the
\* old text from end onward; the caret is placed at start + length(markdown);
\* no other note is modified
C23_PasteReplacesSelection ==
    [][(pc = "paste" /\ pc' = "pasted" /\ defaultPrevented') =>
          LET old == notes[activeNoteId]
              new == notes'[activeNoteId]
              start == textarea.selectionStart
              end == textarea.selectionEnd
              mdLen == Len(turndown(clipboard.html))
          IN /\ activeNoteId' = activeNoteId
             /\ Len(new) = start + mdLen + (Len(old) - end)
             /\ \A i \in 1..start : new[i] = old[i]
             /\ \A i \in 1..mdLen : new[start + i] = turndown(clipboard.html)[i]
             /\ \A i \in 1..(Len(old) - end) : new[start + mdLen + i] = old[end + i]
             /\ caret' = start + mdLen
             /\ \A n \in NoteIds \ {activeNoteId} : notes'[n] = notes[n]]_vars

C23_Witness ==
    /\ pc = "pasted"
    /\ defaultPrevented
    /\ textarea.value = <<"a", "b">>
    /\ textarea.selectionStart = 1
    /\ textarea.selectionEnd = 2
    /\ clipboard.text = <<"h", "i">>
    /\ notes[activeNoteId] = <<"a", "h", "i">>
    /\ caret = 3
    /\ \E n \in NoteIds : n # activeNoteId /\ notes[n] = <<"b">>

----------------------------------------------------------------------------
(* Properties of the post-processing as a function (SpecPostprocess) *)

\* C24: the converter's whitespace post-processing (trim the end of every
\* line, collapse runs of three or more newlines to two, trim the whole
\* result) is idempotent: applied to its own output it returns that output
C24_PostprocessIdempotent ==
    pc = "done" => postprocess(output) = output

C24_Witness ==
    /\ pc = "done"
    /\ md = <<"x", " ", "\n", "\n", "\n", "x">>
    /\ output = <<"x", "\n", "\n", "x">>
    /\ postprocess(output) = output

----------------------------------------------------------------------------
(* Properties of the active selection and the user habits (SpecMain) *)

\* C25: after any sequence of application commands activeNoteId is null or
\* the id of a note that currently exists in notes, and deleting a project
\* removes every note whose projectId is that project
C25_ActiveNoteExists ==
    /\ [](pc = "ready" => (activeNoteId = NoNote \/ activeNoteId \in NoteIdsOf(mainNotes)))
    /\ [][\A p \in mainProjects \ mainProjects' :
             \A n \in mainNotes' : n.projectId # p]_vars

\* C26: after every command that changes activeProjectId or activeNoteId the
\* habits are in step with the selection: userHabits.lastActiveProjectId is
\* activeProjectId and userHabits.lastActiveNoteId is activeNoteId
C26_HabitsFollowSelection ==
    [][(/\ pc = "ready"
        /\ pc' = "ready"
        /\ (activeProjectId' # activeProjectId \/ activeNoteId' # activeNoteId)) =>
           /\ userHabits'.lastActiveProjectId = activeProjectId'
           /\ userHabits'.lastActiveNoteId = activeNoteId']_vars

----------------------------------------------------------------------------
(* Properties of the close handler (SpecClose) *)

\* C27: when the close is requested with auto-backup enabled and a backup
\* path, the close is paused, the backup is attempted exactly once and the
\* window is closed after it, whatever its outcome; no second backup starts;
\* when auto-backup is not configured the close is never paused
C27_OneBackupThenClose ==
    /\ backups.started <= 1
    /\ window = "closed" =>
          IF settingsConfigured THEN backups.finished = 1 ELSE backups.started = 0

----------------------------------------------------------------------------
(* Properties of the storage initialization (SpecSqlite) *)

\* C28: storage initialization is single-flight: for any interleaving of calls
\* of init() and of the data operations the database is opened and the tables
\* are created at most once, every caller waits for that same initialization,
\* and no data operation touches the database before the initialization has
\* completed
C28_SingleFlightInit ==
    /\ [](loads <= 1 /\ initTask.tables <= TABLES)
    /\ [][\A c \in 1..Len(callers') :
             (callers'[c].pc = "touch" /\ (c > Len(callers) \/ callers[c].pc # "touch"))
                 => initTask.pc = "done"]_vars

====
